---- MODULE Spec2Model ----
(***************************************************************************)
(* ABI review pipeline of abichecker/abichecker.py: repo matching          *)
(* (findrepos, ensure_settled), library pairing, the per-pair dump and     *)
(* compare tools, the verdict of check_source_submission and its           *)
(* persistence by check_one_request / save_reports_to_db.                  *)
(*                                                                         *)
(* Python's None/True/False are the strings "None"/"True"/"False" (TLC     *)
(* does not compare booleans with strings).  A library path is a record    *)
(* [dir, name, ver] standing for <dir>/lib<name>.so.<ver>; its basename is *)
(* the record [name, ver].                                                 *)
(***************************************************************************)
EXTENDS Integers, Sequences, FiniteSets, TLC

\* ------------------------------------------------------------------ bounds
\* number of architectures of the source repository, hence matched triples
MaxRepos == 2
\* number of check_one_request passes of one model run
MaxRuns == 2
\* number of file entries the binary packages of one side are drawn from
MaxFiles == 6
\* number of repositories in the source project's meta
MaxMetaRepos == 2
\* number of matched triples ensure_settled is given
MaxTriples == 3

\* ------------------------------------------------------------------ values
None == "None"
PyTrue == "True"
PyFalse == "False"
Tri == {PyTrue, PyFalse, None}

\* an optional value that is not a tri-state: Nothing for None, Some(x) for x
Nothing == <<>>
Some(x) == <<x>>

\* bool(x) of a tri-state value: `if ret:`
Truthy(x) == x = PyTrue

\* os.path.basename of a library path
basename(p) == [name |-> p.name, ver |-> p.ver]

\* namedtuple MatchRepo
MR(s, d, a) == [srcrepo |-> s, dstrepo |-> d, arch |-> a]

\* LibResult(mr.srcrepo, basename(old), mr.dstrepo, basename(new), mr.arch,
\* htmlreport, r) against the fields (src_repo, src_lib, dst_repo, dst_lib, arch,
\* htmlreport, result): positionally, src_lib is the old (destination) library
\* and dst_lib the new (source) one.  htmlreport is named from the other fields
\* and the time and is left out.
LibResult(mr, old, new, r) ==
    [src_repo |-> mr.srcrepo, src_lib |-> basename(old), dst_repo |-> mr.dstrepo,
     dst_lib |-> basename(new), arch |-> mr.arch, result |-> r]

\* namedtuple Report (project, package and revision are fixed per request)
Report(libresults, overall) == [reports |-> libresults, result |-> overall]

\* so_re.match(fn): (/usr)?/lib(64)?/lib<name>.so(.<ver>)?
SoDirs == {"/usr/lib", "/usr/lib64", "/lib", "/lib64"}
so_re_match(p) == p.dir \in SoDirs

\* a sequence enumerating the finite set S in some order
RECURSIVE Orders(_)
Orders(S) ==
    IF S = {} THEN {<<>>}
    ELSE UNION {{<<x>> \o t : t \in Orders(S \ {x})} : x \in S}

Range(s) == {s[i] : i \in DOMAIN s}

Max(S) == CHOOSE x \in S : \A y \in S : y <= x

\* ---------------------------------------------------------- compute_fetchlist
\* a file entry of a binary package: [fn, mode, lnk] with mode "reg" (S_ISREG)
\* or "lnk" (S_ISLNK); every package has its debuginfo package with the debug
\* file of each library

\* lib_aliases: basename of a link's target -> the basenames of the links
lib_aliases(files) ==
    LET links == {f \in files : so_re_match(f.fn) /\ f.mode = "lnk"} IN
    [n \in {basename(f.lnk) : f \in links} |->
        {basename(f.fn) : f \in {f \in links : basename(f.lnk) = n}}]

\* liblist: library path -> the aliases of its basename
liblist_of(files) ==
    [lib \in {f.fn : f \in {f \in files : so_re_match(f.fn) /\ f.mode = "reg"}} |->
        IF basename(lib) \in DOMAIN lib_aliases(files)
        THEN lib_aliases(files)[basename(lib)] ELSE {}]

\* the debug info check of lines 1030-1073. A scanned package is
\* [name, libs, debuginfo]: libs are its regular library files (lib_packages),
\* debuginfo is Nothing or Some([arch, files]) of the package <name>-debuginfo;
\* a debug file is [lib, form], form "plain" for /usr/lib/debug<lib>.debug and
\* "versioned" for /usr/lib/debug<lib>-<version>-<release>.<arch>.debug
DebugFile(lib, form) == [lib |-> lib, form |-> form]

\* an entry of the set missing_debuginfo: (prj, pkg, repo, arch, pkgname) or
\* (prj, pkg, repo, arch, pkgname, lib); prj, pkg and repo are those of the scan
Missing(arch, pkgname, lib) == [arch |-> arch, pkgname |-> pkgname, lib |-> lib]

\* lines 1053-1055
debug_arch(a) == IF a = "i586" THEN "i386" ELSE a

\* mutant of scan_debuginfo: the scan stops at the first package lacking debug info
RECURSIVE scan_fail_fast(_, _, _)
scan_fail_fast(pkgs, arch, missing) ==
    IF pkgs = <<>> \/ missing # {} THEN missing
    ELSE LET p == Head(pkgs) IN
         IF p.libs = {} THEN scan_fail_fast(Tail(pkgs), arch, missing)
         ELSE IF p.debuginfo = Nothing
         THEN {Missing(arch, p.name, Nothing)}
         ELSE LET h == p.debuginfo[1]
                  lacking == {lib \in p.libs : DebugFile(lib, "plain") \notin h.files
                                               /\ DebugFile(lib, "versioned") \notin h.files}
              IN scan_fail_fast(Tail(pkgs), arch,
                     IF lacking = {} THEN {}
                     ELSE {Missing(debug_arch(h.arch), p.name,
                                   Some(CHOOSE lib \in lacking : TRUE))})

\* lines 1034-1060: pkgs is sorted(lib_packages) with the packages that hold
\* no library left in; arch is overwritten by the architecture of a debuginfo
\* package as soon as one of its plain debug files is looked up in vain
RECURSIVE scan_debuginfo(_, _, _)
scan_debuginfo(pkgs, arch, missing) ==
    IF pkgs = <<>> THEN missing
    ELSE LET p == Head(pkgs) IN
         IF p.libs = {} THEN scan_debuginfo(Tail(pkgs), arch, missing)
         ELSE IF p.debuginfo = Nothing
         THEN scan_debuginfo(Tail(pkgs), arch,
                             missing \cup {Missing(arch, p.name, Nothing)})
         ELSE LET h == p.debuginfo[1]
                  unplain == {lib \in p.libs : DebugFile(lib, "plain") \notin h.files}
                  arch2 == IF unplain = {} THEN arch ELSE debug_arch(h.arch)
                  lacking == {lib \in unplain : DebugFile(lib, "versioned") \notin h.files}
              IN scan_debuginfo(Tail(pkgs), arch2,
                     missing \cup {Missing(arch2, p.name, Some(lib)) : lib \in lacking})

\* lines 998, 1071-1073: the set MissingDebugInfo is raised with (empty: no raise)
missing_of(pkgs, arch) == scan_debuginfo(pkgs, arch, {})

\* the file entries of the scanned library packages
files_of(pkgs) ==
    UNION {{[fn |-> lib, mode |-> "reg", lnk |-> [dir |-> "", name |-> "", ver |-> ""]] :
               lib \in pkgs[i].libs} : i \in DOMAIN pkgs}

\* -------------------------------------------------------------- LibraryPairer
\* a liblist is a function: library path -> set of alias basenames

\* reverse index for aliases in the source project: alias -> set of libraries
src_aliases(src_libs) ==
    [a \in UNION {src_libs[l] : l \in DOMAIN src_libs} |->
        {l \in DOMAIN src_libs : a \in src_libs[l]}]

\* the pairs the alias lookup adds for one destination library
alias_pairs(lib, dst_libs, src_libs) ==
    {<<lib, l>> : l \in UNION {src_aliases(src_libs)[a] :
                      a \in dst_libs[lib] \cap DOMAIN src_aliases(src_libs)}}

\* the pairs of one destination library
lib_pairs(lib, dst_libs, src_libs) ==
    IF lib \in DOMAIN src_libs THEN {<<lib, lib>>}
    ELSE alias_pairs(lib, dst_libs, src_libs)

\* pairs = set() ... pairs.add(...)
pairs_of(dst_libs, src_libs) ==
    UNION {lib_pairs(lib, dst_libs, src_libs) : lib \in DOMAIN dst_libs}

\* mutant of not_found: a library is found only by its path
not_found_by_path(dst_libs, src_libs) ==
    {lib \in DOMAIN dst_libs : lib \notin DOMAIN src_libs}

\* the destination libraries for which found == False
not_found(dst_libs, src_libs) ==
    {lib \in DOMAIN dst_libs :
        lib \notin DOMAIN src_libs /\ alias_pairs(lib, dst_libs, src_libs) = {}}

\* the text_summary lines of the pairing loop
warning(lib) == <<"Warning: no longer packaged", lib>>

RECURSIVE warnings_in(_, _, _)
warnings_in(order, dst_libs, src_libs) ==
    IF order = <<>> THEN <<>>
    ELSE (IF Head(order) \in not_found(dst_libs, src_libs)
          THEN <<warning(Head(order))>> ELSE <<>>)
         \o warnings_in(Tail(order), dst_libs, src_libs)

\* ------------------------------------------------------------ ensure_settled
\* rmap: (repository, arch) -> [dirty, code], a partial function
TerminalCodes == {"succeeded", "locked", "excluded"}

\* the body of `for mr in matchrepos` for one triple
settle_check(mr, rmap) ==
    LET k == <<mr.srcrepo, mr.arch>> IN
    IF k \notin DOMAIN rmap THEN "NotReadyYet"
    ELSE IF rmap[k].dirty THEN "NotReadyYet"
    ELSE IF rmap[k].code = "broken" THEN "SourceBroken"
    ELSE IF rmap[k].code \notin TerminalCodes THEN "NotReadyYet"
    ELSE "ok"

\* walk the triples in the order given; the first failing triple raises
RECURSIVE settle_walk(_, _)
settle_walk(order, rmap) ==
    IF order = <<>> THEN "ok"
    ELSE IF settle_check(Head(order), rmap) # "ok"
         THEN settle_check(Head(order), rmap)
         ELSE settle_walk(Tail(order), rmap)

\* matchrepos is a set: every iteration order is possible
ensure_settled(matchrepos, rmap) ==
    {settle_walk(o, rmap) : o \in Orders(matchrepos)}

\* -------------------------------------------------------------- get_dstrepos
\* a Python container: a tuple of names (items) or a str (text, its characters)
PyTuple(items) == [type |-> "tuple", items |-> items, text |-> <<>>]
PyStr(text) == [type |-> "str", items |-> {}, text |-> text]

\* the characters of the repository names
Chars(name) ==
    CASE name = "standard" -> <<"s", "t", "a", "n", "d", "a", "r", "d">>
      [] name = "snapshot" -> <<"s", "n", "a", "p", "s", "h", "o", "t">>
      [] name = "stand" -> <<"s", "t", "a", "n", "d">>
      [] name = "ports" -> <<"p", "o", "r", "t", "s">>
      [] name = "update" -> <<"u", "p", "d", "a", "t", "e">>

\* x in c: membership in a tuple, substring of a str
py_in(name, c) ==
    IF c.type = "tuple" THEN name \in c.items
    ELSE \E i \in 0..(Len(c.text) - Len(Chars(name))) :
            SubSeq(c.text, i + 1, i + Len(Chars(name))) = Chars(name)

\* lines 48-60
REPO_WHITELIST ==
    ("openSUSE:Factory" :> PyTuple({"standard", "snapshot"}))
    @@ ("SUSE:SLE-12:Update" :> PyStr(Chars("standard")))

ARCH_BLACKLIST == [p \in {} |-> PyTuple({})]

ARCH_WHITELIST ==
    ("SUSE:SLE-12:Update" :> PyTuple({"i586", "ppc64le", "s390", "s390x", "x86_64"}))

\* get_dstrepos: meta is the destination's _meta, Nothing when the query
\* fails with HTTPError; the result is None or the set of (name, arch)
get_dstrepos(project, meta) ==
    IF meta = Nothing THEN Nothing
    ELSE Some(UNION {{<<meta[1][i].name, a>> :
                         a \in {a \in Range(meta[1][i].archs) :
                                   /\ ~(project \in DOMAIN ARCH_WHITELIST
                                        /\ ~py_in(a, ARCH_WHITELIST[project]))
                                   /\ ~(project \in DOMAIN ARCH_BLACKLIST
                                        /\ py_in(a, ARCH_BLACKLIST[project]))}} :
                        i \in {i \in DOMAIN meta[1] :
                                  ~(project \in DOMAIN REPO_WHITELIST
                                    /\ ~py_in(meta[1][i].name, REPO_WHITELIST[project]))}})

\* ----------------------------------------------------------------- findrepos
\* The source project's meta is a sequence (document order) of repositories
\* [name, path, archs]: path a sequence of [project, repository], archs a
\* sequence of architecture names.

\* prj = path[0].attrib['project'] with the Tumbleweed hack
path_project(repo) ==
    IF repo.path[1].project = "openSUSE:Tumbleweed" THEN "openSUSE:Factory"
    ELSE repo.path[1].project

\* the repositories the non-staging loop does not `continue` past
follows(repo, dst_project) ==
    Len(repo.path) = 1 /\ path_project(repo) = dst_project

\* dstname = path[0].attrib['repository'] with the snapshot hack
dstname(repo) ==
    IF path_project(repo) = "openSUSE:Factory" /\ repo.path[1].repository = "snapshot"
    THEN "standard"
    ELSE repo.path[1].repository

\* mutant of matchrepos_of: the path declarations are followed in staging too
matchrepos_by_path(meta, dst_project, dstrepos, staging) ==
    UNION {{MR(meta[i].name, dstname(meta[i]), a) :
               a \in {a \in Range(meta[i].archs) : <<dstname(meta[i]), a>> \in dstrepos}} :
           i \in {i \in DOMAIN meta : follows(meta[i], dst_project)}}

\* the set matchrepos after the loops
matchrepos_of(meta, dst_project, dstrepos, staging) ==
    IF staging
    THEN UNION {{MR("standard", "standard", a) : a \in Range(meta[i].archs)} :
                i \in {i \in DOMAIN meta : meta[i].name = "standard"}}
    ELSE UNION {{MR(meta[i].name, dstname(meta[i]), a) :
                    a \in {a \in Range(meta[i].archs) :
                              <<dstname(meta[i]), a>> \in dstrepos}} :
                i \in {i \in DOMAIN meta : follows(meta[i], dst_project)}}

\* every value the loop variable `arch` takes, in order
RECURSIVE arch_trace(_, _, _)
arch_trace(meta, dst_project, staging) ==
    IF meta = <<>> THEN <<>>
    ELSE (IF (staging /\ Head(meta).name = "standard")
             \/ (~staging /\ follows(Head(meta), dst_project))
          THEN Head(meta).archs ELSE <<>>)
         \o arch_trace(Tail(meta), dst_project, staging)

\* the value `arch` holds when the build-success loop reads it
last_arch(meta, dst_project, staging) ==
    arch_trace(meta, dst_project, staging)[Len(arch_trace(meta, dst_project, staging))]

\* srcrepos is Nothing (None) or Some(the set of (repository, arch) of the
\* lastsuccess report): `for mr in matchrepos: if (mr.srcrepo, arch) not in srcrepos`
buildsuccess_check(matchrepos, arch, srcrepos) ==
    IF srcrepos = Nothing THEN "NotReadyYet"
    ELSE IF srcrepos[1] = {} THEN "NoBuildSuccess"
    ELSE IF \E mr \in matchrepos : <<mr.srcrepo, arch>> \notin srcrepos[1]
         THEN "NoBuildSuccess"
    ELSE "ok"

FindResult(kind, repos) == [kind |-> kind, repos |-> repos]

\* The possible results of findrepos: kind "ok" with the matched triples, kind
\* "None" for `return None`, or the name of the exception raised.
\* f = [meta, dst_project, dstrepos, staging, rmap, srcrepos]; meta, dstrepos
\* and srcrepos are optional values (Nothing when the query fails).
findrepos(f) ==
    IF f.dstrepos = Nothing \/ f.meta = Nothing THEN {FindResult("None", {})}
    ELSE LET m == matchrepos_of(f.meta[1], f.dst_project, f.dstrepos[1], f.staging) IN
         IF m = {} THEN {FindResult("None", {})}
         ELSE {IF s # "ok" THEN FindResult(s, {})
               ELSE LET b == buildsuccess_check(
                                 m, last_arch(f.meta[1], f.dst_project, f.staging),
                                 f.srcrepos)
                    IN  IF b # "ok" THEN FindResult(b, {}) ELSE FindResult("ok", m)
               : s \in ensure_settled(m, f.rmap)}

\* --------------------------------------------------------- _maintenance_hack
\* What the build service answers _maintenance_hack with, as a record h:
\*   maintained   the search finds a maintenance project for dst_project
\*   mproject     its name
\*   origin       get_originproject: Nothing or Some(project)
\*   alldisabled  every build status of the destination package is 'disabled'
\*   link         _get_linktarget: [prj, pkg], pkg Nothing or Some([base, ext])
\*                for a package named <base>.<ext>, ext a sequence of characters
\*   srcinfos     the (project, package) that have a SourceInfo
\*   find         what the recursive findrepos is answered with
Digits == {"0", "1", "2", "3", "4", "5", "6", "7", "8", "9"}

\* re.compile(r'.*\.(\d+)$').match(linkpkg)
incident_re_match(linkpkg) ==
    /\ linkpkg.ext # <<>>
    /\ \A i \in DOMAIN linkpkg.ext : linkpkg.ext[i] \in Digits

\* dst_project.split(':') of the projects of the model
ProjectParts(project) ==
    IF project = "openSUSE:Factory" THEN <<"openSUSE", "Factory">>
    ELSE IF project = "openSUSE:Tumbleweed" THEN <<"openSUSE", "Tumbleweed">>
    ELSE IF project = "SUSE:SLE-12:Update" THEN <<"SUSE", "SLE-12", "Update">>
    ELSE <<project>>

\* f"{mproject}:{incident}"
originproject_of(mproject, incident) == [master |-> mproject, incident |-> incident]

\* f'{pkg}.' + dst_project.replace(':', '_')
originpackage_of(pkg, dst_project) ==
    [base |-> pkg, ext |-> [sep |-> "_", parts |-> ProjectParts(dst_project)]]

\* mapped = {(mr.dstrepo, mr.arch): mr for mr in originrepos}: of the triples
\* with the same key the one iterated last stays, and originrepos is a set
mapped_of(originrepos) ==
    LET keys == {<<t.dstrepo, t.arch>> : t \in originrepos} IN
    {m \in [keys -> originrepos] :
        \A k \in keys : m[k].dstrepo = k[1] /\ m[k].arch = k[2]}

\* mutant of remap: a triple without a mapping is kept as it is
remap_keeps_unmapped(myrepos, mapped) ==
    {IF <<t.dstrepo, t.arch>> \in DOMAIN mapped
     THEN MR(t.srcrepo, mapped[<<t.dstrepo, t.arch>>].srcrepo, t.arch)
     ELSE t : t \in myrepos}

\* mutant of remap: the source side is replaced and dstrepo is kept
remap_source_side(myrepos, mapped) ==
    {MR(mapped[<<t.dstrepo, t.arch>>].srcrepo, t.dstrepo, t.arch) :
        t \in {t \in myrepos : <<t.dstrepo, t.arch>> \in DOMAIN mapped}}

\* the loop `for mr in myrepos` over mapped
remap(myrepos, mapped) ==
    {MR(t.srcrepo, mapped[<<t.dstrepo, t.arch>>].srcrepo, t.arch) :
        t \in {t \in myrepos : <<t.dstrepo, t.arch>> \in DOMAIN mapped}}

\* the triples the loop warns about and drops
unmapped(myrepos, mapped) ==
    {t \in myrepos : <<t.dstrepo, t.arch>> \notin DOMAIN mapped}

HackResult(kind, originproject, originpackage, repos, dropped) ==
    [kind |-> kind, originproject |-> originproject, originpackage |-> originpackage,
     repos |-> repos, dropped |-> dropped]

\* the possible outcomes of _maintenance_hack(dst_project, dst_srcinfo, myrepos):
\* kind "ok" with the returned tuple, the name of the exception raised, or
\* "TypeError" when the recursive findrepos returned None and is iterated
maintenance_hack(h, dst_project, pkg, myrepos) ==
    IF ~h.maintained THEN {HackResult("ok", Nothing, Nothing, myrepos, {})}
    ELSE IF h.origin # Nothing
    THEN {HackResult("ok", IF h.alldisabled THEN h.origin ELSE Nothing, Nothing,
                     myrepos, {})}
    ELSE IF h.link.pkg = Nothing \/ h.link.prj # dst_project
    THEN {HackResult("ok", Nothing, Nothing, myrepos, {})}
    ELSE IF ~incident_re_match(h.link.pkg[1])
    THEN {HackResult("MaintenanceError", Nothing, Nothing, {}, {})}
    ELSE LET originproject == originproject_of(h.mproject, h.link.pkg[1].ext)
             originpackage == originpackage_of(pkg, dst_project)
         IN  IF <<originproject, originpackage>> \notin h.srcinfos
             THEN {HackResult("MaintenanceError", Nothing, Nothing, {}, {})}
             ELSE UNION {
                    IF r.kind = "None"
                    THEN {HackResult("TypeError", Nothing, Nothing, {}, {})}
                    ELSE IF r.kind # "ok"
                    THEN {HackResult(r.kind, Nothing, Nothing, {}, {})}
                    ELSE {HackResult("ok", Some(originproject), Some(originpackage),
                                     remap(myrepos, m), unmapped(myrepos, m)) :
                             m \in mapped_of(r.repos)}
                    : r \in findrepos(h.find)}

\* ------------------------------------------------------------- external tools
\* exit codes the tools are run with in the model
DumperCodes == {0, 1}
CheckerCodes == {0, 1, 2}

\* run_abi_dumper: `if r != 0: return False`
run_abi_dumper(r) == IF r # 0 THEN PyFalse ELSE PyTrue

\* mutant of run_abi_checker: without the test of the exit code
run_abi_checker_unchecked(r) == IF r = 0 THEN PyTrue ELSE PyFalse

\* run_abi_checker: `if r not in (0, 1): return None`, else `r == 0`
run_abi_checker(r) ==
    IF r \notin {0, 1} THEN None
    ELSE IF r = 0 THEN PyTrue ELSE PyFalse

\* mutant of fold_overall: the last compare result wins
fold_last_wins(overall, r) == r

\* the fold of one compare result into overall
fold_overall(overall, r) ==
    IF overall = None THEN r
    ELSE IF overall = PyTrue /\ r = PyFalse THEN r
    ELSE overall

\* `if ret == True: ret = None` (DistUrlMismatch, failed dump)
need_check_again(ret) == IF ret = PyTrue THEN None ELSE ret

\* mutant of fetch_error_ret: a FetchError declines
fetch_error_declines(ret) == PyFalse

\* `if ret: ret = None` (FetchError)
fetch_error_ret(ret) == IF Truthy(ret) THEN None ELSE ret

\* ---------------------------------------------------------------- persistence
\* db = [request, abicheck, libreport], each table a set of rows

\* id = Column(Integer, primary_key=True): the next rowid of the table
NextId(rows) == IF rows = {} THEN 1 ELSE Max({r.id : r \in rows}) + 1

\* mutant of delete_abichecks: the stored reports are kept
keep_abichecks(db, reqid) == db

\* session.delete(i) for every ABICheck of the request; the relationship
\* ABICheck.reports cascades the delete to its LibReport rows
delete_abichecks(db, reqid) ==
    LET gone == {a.id : a \in {a \in db.abicheck : a.request_id = reqid}} IN
    [db EXCEPT !.abicheck = {a \in @ : a.request_id # reqid},
               !.libreport = {l \in @ : l.submission_id \notin gone}]

\* mutant of upsert_request: the result of a stored request is kept
upsert_keeps_result(db, reqid, state, result) ==
    IF \E r \in db.request : r.id = reqid
    THEN [delete_abichecks(db, reqid) EXCEPT
            !.request = {IF r.id = reqid THEN [r EXCEPT !.state = state] ELSE r : r \in @}]
    ELSE [db EXCEPT !.request =
            @ \cup {[id |-> reqid, state |-> state, result |-> result]}]

\* the try/except NoResultFound of save_reports_to_db
upsert_request(db, reqid, state, result) ==
    IF \E r \in db.request : r.id = reqid
    THEN [delete_abichecks(db, reqid) EXCEPT
            !.request = {IF r.id = reqid
                         THEN [r EXCEPT !.state = state, !.result = result]
                         ELSE r : r \in @}]
    ELSE [db EXCEPT !.request =
            @ \cup {[id |-> reqid, state |-> state, result |-> result]}]

\* `for lr in r.reports`; acc = [db, text]
RECURSIVE add_libreports(_, _, _)
add_libreports(acc, aid, lrs) ==
    IF lrs = <<>> THEN acc
    ELSE LET lr == Head(lrs)
             row == [id |-> NextId(acc.db.libreport), submission_id |-> aid,
                     src_repo |-> lr.src_repo, src_lib |-> lr.src_lib,
                     dst_repo |-> lr.dst_repo, dst_lib |-> lr.dst_lib,
                     arch |-> lr.arch, result |-> lr.result]
             line == <<"*", lr.dst_lib, lr.arch,
                       IF Truthy(lr.result) THEN "compatible" ELSE "INCOMPATIBLE",
                       row.id>>
         IN  add_libreports([db |-> [acc.db EXCEPT !.libreport = @ \cup {row}],
                             text |-> Append(acc.text, line)],
                            aid, Tail(lrs))

\* `for r in self.reports`; acc = [db, text]
RECURSIVE add_reports(_, _, _)
add_reports(acc, reqid, rs) ==
    IF rs = <<>> THEN acc
    ELSE LET r == Head(rs)
             row == [id |-> NextId(acc.db.abicheck), request_id |-> reqid,
                     result |-> r.result]
             db1 == [acc.db EXCEPT !.abicheck = @ \cup {row}]
         IN  IF r.result = None
             THEN add_reports([db |-> db1, text |-> acc.text], reqid, Tail(rs))
             ELSE add_reports(
                    add_libreports(
                        [db |-> db1,
                         text |-> Append(acc.text,
                                    IF Truthy(r.result)
                                    THEN <<"Good news from ABI check">>
                                    ELSE <<"Warning: bad news from ABI check">>)],
                        row.id, r.reports),
                    reqid, Tail(rs))

\* save_reports_to_db(req, state, result): the new [db, text]
save_reports_to_db(db, text, reqid, state, result, rs) ==
    add_reports([db |-> upsert_request(db, reqid, state, result), text |-> text],
                reqid, rs)

\* mutant of state_of: every checked request is done
state_always_done(ret) == "done"

\* mutant of result_of: every verdict is stored as accepted
result_accepts(ret) == IF ret = None THEN None ELSE "accepted"

\* check_one_request: state and result from ret
state_of(ret) == IF ret # None THEN "done" ELSE "seen"
result_of(ret) ==
    IF ret = None THEN None
    ELSE IF Truthy(ret) THEN "accepted" ELSE "declined"

\* lines 579-587: the stored state of the request is 'done'
check_request_already_done(d, reqid) ==
    \E r \in d.request : r.id = reqid /\ r.state = "done"

\* mutant of already_done: a request stored as 'seen' is skipped as well
already_seen(nr, f, d, reqid) == nr /\ ~f /\ \E r \in d.request : r.id = reqid

\* line 516: the request is skipped
already_done(nr, f, d, reqid) == nr /\ ~f /\ check_request_already_done(d, reqid)

\* lines 570-577: what check_one_request returns
return_of(nr, r) == IF nr THEN None ELSE r

\* ------------------------------------------------------------------- the disk
\* mutant of rmtree: the directory is left as it is
rmtree_skipped(dir) == dir

\* `if os.path.exists(UNPACKDIR): shutil.rmtree(UNPACKDIR)` (234-235, 420-421)
rmtree(dir) == {}

\* extract has written files of the request below UNPACKDIR (lines 733-747)
unpacked(dir, reqid) == dir \cup {reqid}

DumpFiles == {"old.dump", "new.dump"}

\* mutant of cleanup: the dump files are left where they are
cleanup_skipped(files) == files

\* cleanup() of lines 378-382
cleanup(files) == files \ DumpFiles

\* the dump files abi-dumper has written when the old and the new side are
\* dumped with success (a dumper that fails writes none here)
dumped(old_ok, new_ok) ==
    (IF old_ok THEN {"old.dump"} ELSE {}) \cup (IF new_ok THEN {"new.dump"} ELSE {})

\* ---------------------------------------------------------------------- state
VARIABLES
    pc,                 \* position: "idle", "check", "maint", "repos", "pairs", "save"
    queue,              \* the requests the bot is still to check, in order
    width,              \* the most architectures a source project builds for
    cur,                \* req.reqid of the request being checked
    ret,                \* check_source_submission: ret
    overall,            \* check_source_submission: overall
    libresults,         \* check_source_submission: libresults
    missing_debuginfo,  \* check_source_submission: missing_debuginfo
    todo,               \* the triples of myrepos not yet iterated
    mr,                 \* the triple of the current iteration
    pairs,              \* the pairs of mr not yet iterated
    calls,              \* the tools run for the most recent pair, in order
    ev,                 \* the branch the last step took
    reports,            \* self.reports
    text_summary,       \* self.text_summary
    log,                \* the logger.error records of the current check
    db,                 \* the database: [request, abicheck, libreport]
    comments,           \* the abichecker comments on the requests
    saves,              \* history: [req, reports] of every save_reports_to_db
    arg,                \* input of the function under check (function specs)
    res,                \* its result, or the walk so far
    no_review,          \* self.no_review
    force,              \* self.force
    returned,           \* what check_one_request returned last (None while it runs)
    unpackdir,          \* UNPACKDIR: the requests whose extracted trees it holds
    dumps,              \* the dump files that exist in CACHEDIR
    stale               \* the dump files the tools of the last pair found there

runVars_but_todo == <<ret, overall, libresults, missing_debuginfo, mr, pairs, calls>>
runVars == <<ret, overall, libresults, missing_debuginfo, todo, mr, pairs, calls>>
botVars == <<reports, text_summary, log>>
extVars == <<db, comments, saves>>
funVars == <<arg, res>>
cfgVars == <<no_review, force>>
dumpVars == <<dumps, stale>>
diskVars == <<unpackdir, dumpVars>>
vars == <<pc, queue, width, cur, ev, runVars, botVars, extVars, funVars, cfgVars,
          returned, diskVars>>

\* ------------------------------------------------------- inputs of the pipeline
ReqIds == {1, 2}
NoMR == MR("", "", "")

DstProject == "openSUSE:Factory"
ArchList == <<"x86_64", "i586", "aarch64", "ppc64le">>
Archs(n) == {ArchList[i] : i \in 1..n}

LibA10 == [dir |-> "/usr/lib64", name |-> "a", ver |-> "1.0"]
LibA11 == [dir |-> "/usr/lib64", name |-> "a", ver |-> "1.1"]
LibB2 == [dir |-> "/usr/lib64", name |-> "b", ver |-> "2"]
SoA1 == [name |-> "a", ver |-> "1"]

\* the liblists extract returns in the pipeline
DstLibLists == {(LibA10 :> {SoA1}) @@ (LibB2 :> {})}
SrcLibLists == {(LibA10 :> {SoA1}) @@ (LibB2 :> {}), (LibA11 :> {SoA1})}

\* the typed failures of extract that check_source_submission catches
ExtractFailures == {"DistUrlMismatch", "MissingDebugInfo", "FetchError"}

\* what the build service answers findrepos with: a source project with one
\* repository `standard` of n architectures building against the destination
PipelineFind(n, settled, success) ==
    [meta |-> Some(<<[name |-> "standard",
                      path |-> <<[project |-> DstProject, repository |-> "standard"]>>,
                      archs |-> SubSeq(ArchList, 1, n)]>>),
     dst_project |-> DstProject,
     dstrepos |-> Some({<<"standard", a>> : a \in Archs(Len(ArchList))}),
     staging |-> FALSE,
     rmap |-> [k \in {<<"standard", a>> : a \in Archs(n)} |->
                 IF k[2] = ArchList[1] THEN settled
                 ELSE [dirty |-> FALSE, code |-> "succeeded"]],
     srcrepos |-> success]

PipelineFinds ==
    {PipelineFind(n, s, b) :
        n \in 0..width,
        s \in {[dirty |-> FALSE, code |-> "succeeded"], [dirty |-> TRUE, code |-> "succeeded"],
               [dirty |-> FALSE, code |-> "broken"], [dirty |-> FALSE, code |-> "building"]},
        b \in {Nothing, Some({}), Some({<<"standard", a>> : a \in Archs(width)})}}

\* --------------------------------------------------------------------- Init
InitState ==
    /\ pc = "idle" /\ cur = 0 /\ ev = "init"
    /\ ret = None /\ overall = None /\ libresults = <<>> /\ missing_debuginfo = <<>>
    /\ todo = {} /\ mr = NoMR /\ pairs = {} /\ calls = <<>>
    /\ reports = <<>> /\ text_summary = <<>> /\ log = <<>>
    /\ db = [request |-> {}, abicheck |-> {}, libreport |-> {}]
    /\ comments = {} /\ saves = <<>>
    /\ returned = None /\ unpackdir = {} /\ dumps = {} /\ stale = {}

\* the bot runs to review: no_review and force are unset
InitRun == InitState /\ no_review = FALSE /\ force = FALSE

\* one request is checked, of a project of up to MaxRepos architectures
Init ==
    /\ InitRun
    /\ queue = <<1>> /\ width = MaxRepos
    /\ arg = <<>> /\ res = <<>>

\* MaxRuns requests are checked one after the other, some of them again,
\* of projects of one architecture
InitRuns ==
    /\ InitRun
    /\ queue \in [1..MaxRuns -> ReqIds] /\ width = 1
    /\ arg = <<>> /\ res = <<>>

\* ------------------------------------------------------- check_one_request
\* lines 512-535: the request is not skipped and is taken up.
\* ReviewBot.check_one_request, which line 537 calls, hands the submission to
\* check_source_submission and returns what that returns.
check_one_request ==
    /\ pc = "idle" /\ queue # <<>>
    /\ ~already_done(no_review, force, db, Head(queue))
    /\ queue' = Tail(queue)
    /\ cur' = Head(queue)
    /\ returned' = None
    /\ reports' = <<>> /\ text_summary' = <<>> /\ log' = <<>>
    /\ ret' = PyTrue /\ overall' = None /\ libresults' = <<>>
    /\ missing_debuginfo' = <<>> /\ todo' = {} /\ mr' = NoMR /\ pairs' = {}
    /\ calls' = <<>>
    /\ pc' = "check" /\ ev' = "begin"
    /\ UNCHANGED <<width, extVars, funVars, cfgVars, diskVars>>

\* check_source_submission returns before repos are matched:
\* patchinfo (None), blacklisted project (True), request not staged yet (None),
\* new package (True, an empty report), source missing (False, an empty report)
EarlyReturns ==
    {[why |-> "patchinfo", ret |-> None, report |-> FALSE, text |-> <<>>],
     [why |-> "blacklist", ret |-> PyTrue, report |-> FALSE, text |-> <<>>],
     [why |-> "not staged", ret |-> None, report |-> FALSE, text |-> <<>>],
     [why |-> "new package", ret |-> PyTrue, report |-> TRUE, text |-> <<>>],
     [why |-> "no source", ret |-> PyFalse, report |-> TRUE,
      text |-> << <<"does not exist, can't check">> >>]}

early_return(e) ==
    /\ pc = "check"
    /\ ret' = e.ret
    /\ reports' = IF e.report THEN Append(reports, Report(<<>>, None)) ELSE reports
    /\ text_summary' = text_summary \o e.text
    /\ pc' = "save" /\ ev' = e.why
    /\ UNCHANGED <<queue, width, cur, overall, libresults, missing_debuginfo, todo, mr,
                   pairs, calls, log, extVars, funVars, cfgVars, returned, diskVars>>

\* lines 237-259: findrepos raises, or matches nothing
findrepos_declines(f, r) ==
    /\ pc = "check"
    /\ r \in findrepos(f)
    /\ r.kind # "ok"
    /\ ret' = IF r.kind = "NotReadyYet" THEN None ELSE PyFalse
    /\ text_summary' =
         IF r.kind = "NotReadyYet" THEN text_summary
         ELSE IF r.kind = "None"
              THEN Append(text_summary, <<"Error", "does not build against">>)
              ELSE Append(text_summary, <<"Error", r.kind>>)
    /\ reports' = Append(reports, Report(<<>>, None))
    /\ pc' = "save" /\ ev' = r.kind
    /\ unpackdir' = rmtree(unpackdir)
    /\ UNCHANGED <<queue, width, cur, overall, libresults, missing_debuginfo, todo, mr,
                   pairs, calls, log, extVars, funVars, cfgVars, returned, dumpVars>>

\* lines 239, 294-301: findrepos returns triples and the loop over them starts
\* (the destination is not a maintenance project: _maintenance_hack passes
\* myrepos through)
findrepos_matches(f, r) ==
    /\ pc = "check"
    /\ r \in findrepos(f)
    /\ r.kind = "ok"
    /\ todo' = r.repos
    /\ libresults' = <<>> /\ overall' = None /\ missing_debuginfo' = <<>>
    /\ pc' = "repos" /\ ev' = "matched"
    /\ unpackdir' = rmtree(unpackdir)
    /\ UNCHANGED <<queue, width, cur, ret, mr, pairs, calls, botVars, extVars, funVars, cfgVars, returned, dumpVars>>

\* --------------------------------------------- the loop `for mr in myrepos`
\* one side of the triple in a message: the project side, repository and arch
Side(side, m) ==
    [side |-> side, repo |-> IF side = "dst" THEN m.dstrepo ELSE m.srcrepo,
     arch |-> m.arch]

\* mutant of ret_after_failure: the first failure of the loop decides
ret_first_failure_wins(e, r) ==
    IF r # PyTrue THEN r
    ELSE IF e = "MissingDebugInfo" THEN PyFalse ELSE None

\* the except clauses of lines 307-320 and 328-341
ret_after_failure(e, r) ==
    IF e = "DistUrlMismatch" THEN need_check_again(r)
    ELSE IF e = "MissingDebugInfo" THEN PyFalse
    ELSE fetch_error_ret(r)

missing_after_failure(e, side, m, missing) ==
    IF e = "MissingDebugInfo" THEN Append(missing, Side(side, m)) ELSE missing

log_after_failure(e, side, m, l) ==
    IF e = "MissingDebugInfo" THEN l ELSE Append(l, <<e, Side(side, m)>>)

\* extract of the destination side raises e, or of the source side after the
\* destination side returned libraries
extract_raises(m, side, e) ==
    /\ pc = "repos" /\ m \in todo
    /\ todo' = todo \ {m}
    /\ ret' = ret_after_failure(e, ret)
    /\ missing_debuginfo' = missing_after_failure(e, side, m, missing_debuginfo)
    /\ log' = log_after_failure(e, side, m, log)
    /\ pc' = "repos" /\ ev' = e
    /\ unpackdir' \in IF side = "src" THEN {unpacked(unpackdir, cur)}
                     ELSE IF e = "FetchError"
                          THEN {unpackdir, unpacked(unpackdir, cur)}
                          ELSE {unpackdir}
    /\ UNCHANGED <<queue, width, cur, overall, libresults, mr, pairs, calls, reports,
                   text_summary, extVars, funVars, cfgVars, returned, dumpVars>>

\* line 305: the destination has no libraries
extract_dst_none(m) ==
    /\ pc = "repos" /\ m \in todo
    /\ todo' = todo \ {m}
    /\ pc' = "repos" /\ ev' = "dst none"
    /\ UNCHANGED <<queue, width, cur, runVars_but_todo, botVars, extVars, funVars, cfgVars, returned, diskVars>>

\* lines 324-327: the source has no libraries (dst_libs is not empty)
extract_src_none(m) ==
    /\ pc = "repos" /\ m \in todo
    /\ todo' = todo \ {m}
    /\ text_summary' = Append(text_summary,
                           <<"Warning: the submission does not contain any libs anymore">>)
    /\ pc' = "repos" /\ ev' = "src none"
    /\ unpackdir' = unpacked(unpackdir, cur)
    /\ UNCHANGED <<queue, width, cur, runVars_but_todo, reports, log, extVars, funVars, cfgVars, returned, dumpVars>>

\* lines 343-367: both sides extracted, the pairs are built; dst_libs is
\* iterated in the order `order`
pair_libraries(m, dst_libs, src_libs, order) ==
    /\ pc = "repos" /\ m \in todo
    /\ order \in Orders(DOMAIN dst_libs)
    /\ todo' = todo \ {m}
    /\ mr' = m
    /\ pairs' = pairs_of(dst_libs, src_libs)
    /\ text_summary' = text_summary \o warnings_in(order, dst_libs, src_libs)
    /\ pc' = IF pairs_of(dst_libs, src_libs) = {} THEN "repos" ELSE "pairs"
    /\ ev' = "paired"
    /\ unpackdir' = unpacked(unpackdir, cur)
    /\ UNCHANGED <<queue, width, cur, ret, overall, libresults, missing_debuginfo, calls,
                   reports, log, extVars, funVars, cfgVars, returned, dumpVars>>

\* lines 370-409: one pair is dumped and compared between the two cleanup()
\* calls; d_old, d_new and chk are the exit codes the tools would end with
check_pair(p, d_old, d_new, chk) ==
    LET old == p[1]
        new == p[2]
        m == so_re_match(old)
        dumped_old == m /\ Truthy(run_abi_dumper(d_old))
        dumped_new == dumped_old /\ Truthy(run_abi_dumper(d_new))
        r == run_abi_checker(chk)
    IN
    /\ pc = "pairs" /\ p \in pairs
    /\ pairs' = pairs \ {p}
    /\ calls' = (IF m THEN << <<"abi-dumper", "old", d_old>> >> ELSE <<>>)
                 \o (IF dumped_old THEN << <<"abi-dumper", "new", d_new>> >> ELSE <<>>)
                 \o (IF dumped_new THEN << <<"abi-compliance-checker", chk>> >> ELSE <<>>)
    /\ IF dumped_new
       THEN /\ libresults' = IF r # None
                               THEN Append(libresults, LibResult(mr, old, new, r))
                               ELSE libresults
            /\ overall' = IF r # None THEN fold_overall(overall, r) ELSE overall
            /\ log' = IF r = None
                        THEN Append(log, <<"abi-compliance-checker failed", p>>)
                        ELSE log
            /\ UNCHANGED <<ret, text_summary>>
       ELSE /\ log' = log
                        \o (IF m THEN << <<"failed to dump",
                                             IF dumped_old THEN new ELSE old>> >>
                            ELSE <<>>)
                        \o << <<"failed to compare", p>> >>
            /\ text_summary' = Append(text_summary, <<"Error", "ABI check failed on", p>>)
            /\ ret' = need_check_again(ret)
            /\ UNCHANGED <<libresults, overall>>
    /\ pc' = IF pairs \ {p} = {} THEN "repos" ELSE "pairs"
    /\ ev' = IF ~dumped_new THEN "dump failed"
             ELSE IF r = None THEN "compare failed" ELSE "compared"
    /\ stale' = cleanup(dumps)
    /\ dumps' = cleanup(cleanup(dumps) \cup dumped(dumped_old, dumped_new))
    /\ UNCHANGED <<queue, width, cur, missing_debuginfo, todo, mr, reports, extVars,
                   funVars, cfgVars, returned, unpackdir>>

\* mutant of loop_end: an Incompatible overall result declines
loop_end_declines ==
    /\ pc = "repos" /\ todo = {}
    /\ text_summary' = IF missing_debuginfo # <<>>
                       THEN Append(text_summary,
                                   <<"debug information is missing", missing_debuginfo>>)
                       ELSE text_summary
    /\ reports' = Append(reports, Report(libresults, overall))
    /\ ret' = IF overall = PyFalse THEN PyFalse ELSE ret
    /\ pc' = "save" /\ ev' = "return"
    /\ unpackdir' = rmtree(unpackdir)
    /\ UNCHANGED <<queue, width, cur, overall, libresults, missing_debuginfo, todo, mr,
                   pairs, calls, log, extVars, funVars, cfgVars, returned, dumpVars>>

\* lines 411-423: the loop is over, the report is recorded, ret is returned
loop_end ==
    /\ pc = "repos" /\ todo = {}
    /\ text_summary' = IF missing_debuginfo # <<>>
                       THEN Append(text_summary,
                                   <<"debug information is missing", missing_debuginfo>>)
                       ELSE text_summary
    /\ reports' = Append(reports, Report(libresults, overall))
    /\ pc' = "save" /\ ev' = "return"
    /\ unpackdir' = rmtree(unpackdir)
    /\ UNCHANGED <<queue, width, cur, runVars, log, extVars, funVars, cfgVars, returned, dumpVars>>

\* mutant of unhandled_exception: the exception is not caught and ends the run
exception_propagates ==
    /\ pc \in {"check", "repos"}
    /\ queue' = <<>>
    /\ pc' = "idle" /\ ev' = "exception"
    /\ UNCHANGED <<width, cur, runVars, botVars, extVars, funVars, cfgVars, returned, diskVars>>

\* lines 538-542: an exception that check_source_submission does not catch
\* (raised by a query of findrepos or by extract) ends the check with ret = None
unhandled_exception ==
    /\ pc \in {"check", "repos"}
    /\ ret' = None
    /\ log' = Append(log, <<"unhandled exception in ABI checker">>)
    /\ pc' = "save" /\ ev' = "exception"
    /\ unpackdir' \in IF pc = "check" THEN {unpackdir, rmtree(unpackdir)}
                     ELSE IF todo # {} THEN {unpackdir, unpacked(unpackdir, cur)}
                          ELSE {unpackdir}
    /\ UNCHANGED <<queue, width, cur, overall, libresults, missing_debuginfo, todo, mr,
                   pairs, calls, reports, text_summary, extVars, funVars, cfgVars, returned, dumpVars>>

\* mutant of post_comment: a comment is posted without a text as well
post_comment_always(cs, reqid, state, result, text) ==
    {c \in cs : c.req # reqid}
    \cup {[req |-> reqid, state |-> state, result |-> result, text |-> text]}

\* post_comment together with the delete of the previous comment (lines 563-566)
post_comment(cs, reqid, state, result, text) ==
    {c \in cs : c.req # reqid}
    \cup (IF text = <<>> THEN {c \in cs : FALSE}
          ELSE {[req |-> reqid, state |-> state, result |-> result, text |-> text]})

\* lines 544-577: the result is persisted and commented
save_result ==
    LET state == state_of(ret)
        result == result_of(ret)
        saved == save_reports_to_db(db, text_summary, cur, state, result, reports)
        text == IF ret # None /\ saved.text = <<>>
                THEN << <<"ABI checker result", result>> >>
                ELSE saved.text
    IN
    /\ pc = "save"
    /\ db' = saved.db
    /\ reports' = <<>>
    /\ text_summary' = text
    /\ comments' = post_comment(comments, cur, state, result, text)
    /\ saves' = Append(saves, [req |-> cur, reports |-> reports])
    /\ pc' = "idle" /\ ev' = "saved"
    /\ returned' = return_of(no_review, ret)
    /\ UNCHANGED <<queue, width, cur, runVars, log, funVars, cfgVars, diskVars>>

Next ==
    \/ check_one_request
    \/ \E e \in EarlyReturns : early_return(e)
    \/ pc = "check" /\ \E f \in PipelineFinds : \E r \in findrepos(f) :
            findrepos_declines(f, r)
    \/ pc = "check" /\ \E f \in PipelineFinds : \E r \in findrepos(f) :
            findrepos_matches(f, r)
    \/ \E m \in todo, side \in {"dst", "src"}, e \in ExtractFailures :
            extract_raises(m, side, e)
    \/ \E m \in todo : extract_dst_none(m)
    \/ \E m \in todo : extract_src_none(m)
    \/ \E m \in todo, d \in DstLibLists, s \in SrcLibLists :
            \E o \in Orders(DOMAIN d) : pair_libraries(m, d, s, o)
    \/ \E p \in pairs, d_old \in DumperCodes, d_new \in DumperCodes,
            chk \in CheckerCodes : check_pair(p, d_old, d_new, chk)
    \/ loop_end
    \/ unhandled_exception
    \/ save_result

Spec == Init /\ [][Next]_vars

SpecRuns == InitRuns /\ [][Next]_vars

\* ------------------------------------------- the pipeline over scanned packages
NoPath == [dir |-> "", name |-> "", ver |-> ""]
RegFile(p) == [fn |-> p, mode |-> "reg", lnk |-> NoPath]
SymLink(p, target) == [fn |-> p, mode |-> "lnk", lnk |-> target]

LibA1 == [dir |-> "/usr/lib64", name |-> "a", ver |-> "1"]
LibA2 == [dir |-> "/usr/lib64", name |-> "a", ver |-> "2"]
LibA == [dir |-> "/usr/lib64", name |-> "a", ver |-> ""]
OptA1 == [dir |-> "/opt/a/lib", name |-> "a", ver |-> "1"]

\* liba.so.1, liba.so.2, liba.so.1 -> liba.so.2, libb.so.2, liba.so -> liba.so.1,
\* liba.so -> liba.so.2, /opt/a/lib/liba.so.1
FileList ==
    <<RegFile(LibA1), RegFile(LibA2), SymLink(LibA1, LibA2), RegFile(LibB2),
      SymLink(LibA, LibA1), SymLink(LibA, LibA2), RegFile(OptA1)>>
Files == {FileList[i] : i \in 1..MaxFiles}

\* one request of a project of one architecture; the packages of the two
\* sides hold any of the files
InitScan ==
    /\ InitRun
    /\ queue = <<1>> /\ width = 1
    /\ arg \in [dst : SUBSET Files, src : SUBSET Files] /\ res = <<>>

\* extract: fetchlist is empty on the destination side
scan_dst_none(m) ==
    /\ DOMAIN liblist_of(arg.dst) = {}
    /\ extract_dst_none(m)

\* extract: fetchlist is empty on the source side
scan_src_none(m) ==
    /\ DOMAIN liblist_of(arg.dst) # {} /\ DOMAIN liblist_of(arg.src) = {}
    /\ extract_src_none(m)

\* extract returns the liblists of both sides
scan_pairs(m, order) ==
    /\ DOMAIN liblist_of(arg.dst) # {} /\ DOMAIN liblist_of(arg.src) # {}
    /\ pair_libraries(m, liblist_of(arg.dst), liblist_of(arg.src), order)

NextScan ==
    \/ check_one_request
    \/ pc = "check" /\ \E f \in PipelineFinds : \E r \in findrepos(f) :
            findrepos_matches(f, r)
    \/ \E m \in todo : scan_dst_none(m)
    \/ \E m \in todo : scan_src_none(m)
    \/ \E m \in todo : \E o \in Orders(DOMAIN liblist_of(arg.dst)) : scan_pairs(m, o)
    \/ \E p \in pairs, d_old \in DumperCodes, d_new \in DumperCodes,
            chk \in CheckerCodes : check_pair(p, d_old, d_new, chk)
    \/ loop_end
    \/ save_result

SpecScan == InitScan /\ [][NextScan]_vars

\* ------------------------------------------------------- findrepos on its own
FindRepoNames == <<"standard", "ports", "update">>
FindArchs == {<<"x86_64">>, <<"x86_64", "i586">>, <<"i586", "x86_64">>}
FindPaths ==
    {<<[project |-> DstProject, repository |-> "standard"]>>,
     <<[project |-> "devel:libraries", repository |-> "standard"]>>,
     <<[project |-> DstProject, repository |-> "standard"],
       [project |-> DstProject, repository |-> "ports"]>>}

\* the metas of up to MaxMetaRepos repositories
FindMetas ==
    UNION {{[i \in 1..n |-> [name |-> FindRepoNames[i], path |-> c[i][1],
                              archs |-> c[i][2]]] :
               c \in [1..n -> FindPaths \X FindArchs]} : n \in 0..MaxMetaRepos}

\* the (repository, arch) of the source project
FindKeys(meta) ==
    UNION {{<<meta[i].name, a>> : a \in Range(meta[i].archs)} : i \in DOMAIN meta}

\* the build results of the source package: every key succeeded, but for at
\* most one that has no result, is dirty, broken or still building
Succeeded == [dirty |-> FALSE, code |-> "succeeded"]
Unsettled ==
    {[dirty |-> TRUE, code |-> "succeeded"], [dirty |-> FALSE, code |-> "broken"],
     [dirty |-> FALSE, code |-> "building"]}
FindRmaps(meta) ==
    {[k \in FindKeys(meta) |-> Succeeded]}
    \cup {[k \in FindKeys(meta) \ {x} |-> Succeeded] : x \in FindKeys(meta)}
    \cup {[k \in FindKeys(meta) |-> IF k = x THEN u ELSE Succeeded] :
             x \in FindKeys(meta), u \in Unsettled}

\* the lastsuccess reports: none, empty, or listing all keys or all but one
FindSuccess(meta) ==
    {Nothing, Some({}), Some(FindKeys(meta))}
    \cup {Some(FindKeys(meta) \ {k}) : k \in FindKeys(meta)}

\* the architectures the destination's `standard` repository may build for
FindDstArchs == {{"x86_64"}, {"x86_64", "i586"}}

FindInput(meta, d, st, rm, b) ==
    [meta |-> Some(meta), dst_project |-> DstProject,
     dstrepos |-> Some({<<"standard", a>> : a \in d}), staging |-> st,
     rmap |-> rm, srcrepos |-> b]

InitFind ==
    /\ InitRun
    /\ queue = <<>> /\ width = 0
    /\ \E meta \in FindMetas, d \in FindDstArchs, st \in BOOLEAN :
          \E rm \in FindRmaps(meta), b \in FindSuccess(meta) :
              arg = FindInput(meta, d, st, rm, b)
    /\ res = Nothing

\* findrepos is called on the input
call_findrepos ==
    /\ res = Nothing
    /\ \E r \in findrepos(arg) : res' = Some(r)
    /\ UNCHANGED <<pc, queue, width, cur, ev, runVars, botVars, extVars, arg, cfgVars, returned, diskVars>>

NextFind == call_findrepos

SpecFind == InitFind /\ [][NextFind]_vars

\* -------------------------------------------------- ensure_settled on its own
TripleList ==
    <<MR("standard", "standard", "x86_64"), MR("standard", "standard", "i586"),
      MR("ports", "ports", "x86_64"), MR("ports", "ports", "i586")>>
Triples == {TripleList[i] : i \in 1..MaxTriples}

\* what get_package_results answers: a result of any kind for any of the triples
BuildResults == [dirty : BOOLEAN, code : {"succeeded", "excluded", "broken", "building"}]
SettleRmaps(m) ==
    UNION {[K -> BuildResults] : K \in SUBSET {<<t.srcrepo, t.arch>> : t \in m}}

InitSettle ==
    /\ InitRun
    /\ queue = <<>> /\ width = 0
    /\ \E m \in (SUBSET Triples) \ {{}} : \E rm \in SettleRmaps(m) :
          arg = [matchrepos |-> m, rmap |-> rm]
    /\ res = Nothing

\* ensure_settled is called on the input
call_ensure_settled ==
    /\ res = Nothing
    /\ \E r \in ensure_settled(arg.matchrepos, arg.rmap) : res' = Some(r)
    /\ UNCHANGED <<pc, queue, width, cur, ev, runVars, botVars, extVars, arg, cfgVars, returned, diskVars>>

NextSettle == call_ensure_settled

SpecSettle == InitSettle /\ [][NextSettle]_vars

\* ------------------------------------- the pipeline with maintenance resolution
Package == "libfoo"
MaintProject == "openSUSE:Maintenance"
UpdateProject == "openSUSE:Factory:Update"

NoLink == [prj |-> "", pkg |-> Nothing]
LinkTo(prj, base, ext) == [prj |-> prj, pkg |-> Some([base |-> base, ext |-> ext])]

\* the destination package is no link, a link into another project, a link
\* to a package without an incident number, to <name>.42, or to <other>.7
Links ==
    {NoLink, LinkTo("devel:libraries", Package, <<"4", "2">>),
     LinkTo(DstProject, Package, <<>>), LinkTo(DstProject, Package, <<"4", "x">>),
     LinkTo(DstProject, Package, <<"4", "2">>), LinkTo(DstProject, "libbar", <<"7">>)}

\* the link of the destination package names an incident
ProperLinks == {l \in Links : l.prj = DstProject /\ incident_re_match(l.pkg[1])}

\* the origin package of the incident the link names
OriginOf(l) ==
    <<originproject_of(MaintProject, l.pkg[1].ext), originpackage_of(Package, DstProject)>>

\* the incident project builds repository `update` for k architectures
\* against the destination's `standard`, and with both = TRUE a repository
\* `ports` for the first of them as well
OriginFind(k, both, settled, success) ==
    [meta |-> Some(<<[name |-> "update",
                      path |-> <<[project |-> DstProject, repository |-> "standard"]>>,
                      archs |-> SubSeq(ArchList, 1, k)]>>
                   \o (IF both
                       THEN <<[name |-> "ports",
                               path |-> <<[project |-> DstProject, repository |-> "standard"]>>,
                               archs |-> SubSeq(ArchList, 1, 1)]>>
                       ELSE <<>>)),
     dst_project |-> DstProject,
     dstrepos |-> Some({<<"standard", a>> : a \in Archs(Len(ArchList))}),
     staging |-> FALSE,
     rmap |-> [key \in {<<"update", a>> : a \in Archs(k)}
                        \cup (IF both THEN {<<"ports", ArchList[1]>>} ELSE {}) |->
                 IF key = <<"update", ArchList[1]>> THEN settled ELSE Succeeded],
     srcrepos |-> success]

NoFind == OriginFind(0, FALSE, Succeeded, Nothing)

\* an incident that builds for the last architecture of ArchList alone, which
\* no source project of the pipeline builds for
ForeignArch == ArchList[Len(ArchList)]
ForeignFind ==
    [meta |-> Some(<<[name |-> "update",
                      path |-> <<[project |-> DstProject, repository |-> "standard"]>>,
                      archs |-> <<ForeignArch>>]>>),
     dst_project |-> DstProject,
     dstrepos |-> Some({<<"standard", a>> : a \in Archs(Len(ArchList))}),
     staging |-> FALSE,
     rmap |-> [key \in {<<"update", ForeignArch>>} |-> Succeeded],
     srcrepos |-> Some({<<"update", ForeignArch>>})]

Scenario(maintained, origin, alldisabled, link, srcinfos, find) ==
    [maintained |-> maintained, mproject |-> MaintProject, origin |-> origin,
     alldisabled |-> alldisabled, link |-> link, srcinfos |-> srcinfos, find |-> find]

\* one request of a project of up to MaxRepos architectures; the destination
\* is maintained or not
InitMaint ==
    /\ InitRun
    /\ queue = <<1>> /\ width = MaxRepos
    /\ res = Nothing
    /\ \/ arg = Scenario(FALSE, Nothing, FALSE, NoLink, {}, NoFind)
       \/ \E d \in BOOLEAN, l \in Links :
             arg = Scenario(TRUE, Some(UpdateProject), d, l, {}, NoFind)
       \/ \E l \in Links \ ProperLinks :
             arg = Scenario(TRUE, Nothing, FALSE, l, {}, NoFind)
       \/ \E l \in ProperLinks :
             \E si \in {{}, {<<originproject_of(MaintProject, <<"7">>),
                               originpackage_of(Package, DstProject)>>,
                             <<originproject_of(MaintProject, l.pkg[1].ext),
                               originpackage_of(Package, "devel:libraries")>>}} :
                 arg = Scenario(TRUE, Nothing, FALSE, l, si, NoFind)
       \/ \E l \in ProperLinks, k \in 0..MaxRepos, both \in BOOLEAN :
             \E s \in {Succeeded} \cup Unsettled :
               \E b \in {Nothing, Some({}),
                          Some({<<n, a>> : n \in {"update", "ports"}, a \in Archs(k)})} :
                 arg = Scenario(TRUE, Nothing, FALSE, l, {OriginOf(l)},
                                OriginFind(k, both, s, b))
       \/ \E l \in ProperLinks :
             arg = Scenario(TRUE, Nothing, FALSE, l, {OriginOf(l)}, ForeignFind)

\* lines 237-239, 255: findrepos returns triples
repos_matched(f, r) ==
    /\ pc = "check"
    /\ r \in findrepos(f)
    /\ r.kind = "ok"
    /\ todo' = r.repos
    /\ pc' = "maint" /\ ev' = "matched"
    /\ unpackdir' = rmtree(unpackdir)
    /\ UNCHANGED <<queue, width, cur, ret, overall, libresults, missing_debuginfo, mr,
                   pairs, calls, botVars, extVars, funVars, cfgVars, returned, dumpVars>>

\* lines 264-273, 294-301: _maintenance_hack returns o, the repos and the
\* comparison target are replaced and the loop starts; the triples without
\* a mapping were warned about in the order `warned`
maintenance_resolves(o, warned) ==
    /\ pc = "maint"
    /\ o \in maintenance_hack(arg, DstProject, Package, todo)
    /\ o.kind = "ok"
    /\ warned \in Orders(o.dropped)
    /\ todo' = o.repos
    /\ res' = Some(o)
    /\ log' = log \o [i \in DOMAIN warned |-> <<"couldn't find repo", warned[i]>>]
    /\ libresults' = <<>> /\ overall' = None /\ missing_debuginfo' = <<>>
    /\ pc' = "repos" /\ ev' = "resolved"
    /\ UNCHANGED <<queue, width, cur, ret, mr, pairs, calls, reports, text_summary,
                   extVars, arg, cfgVars, returned, diskVars>>

\* lines 274-292: _maintenance_hack raises a typed failure
maintenance_raises(o) ==
    /\ pc = "maint"
    /\ o \in maintenance_hack(arg, DstProject, Package, todo)
    /\ o.kind \in {"MaintenanceError", "NoBuildSuccess", "NotReadyYet", "SourceBroken"}
    /\ ret' = IF o.kind = "NotReadyYet" THEN None ELSE PyFalse
    /\ text_summary' = IF o.kind = "NotReadyYet" THEN text_summary
                       ELSE Append(text_summary, <<"Error", o.kind>>)
    /\ reports' = Append(reports, Report(<<>>, None))
    /\ pc' = "save" /\ ev' = o.kind
    /\ UNCHANGED <<queue, width, cur, overall, libresults, missing_debuginfo, todo, mr,
                   pairs, calls, log, extVars, funVars, cfgVars, returned, diskVars>>

\* line 481: the recursive findrepos returned None and `for mr in originrepos`
\* raises a TypeError, which check_one_request catches (lines 538-542)
maintenance_crashes(o) ==
    /\ pc = "maint"
    /\ o \in maintenance_hack(arg, DstProject, Package, todo)
    /\ o.kind = "TypeError"
    /\ ret' = None
    /\ log' = Append(log, <<"unhandled exception in ABI checker">>)
    /\ pc' = "save" /\ ev' = "exception"
    /\ UNCHANGED <<queue, width, cur, overall, libresults, missing_debuginfo, todo, mr,
                   pairs, calls, reports, text_summary, extVars, funVars, cfgVars, returned, diskVars>>

\* the packages of both sides hold the one library liba.so.1.0, and the dumps
\* of it succeed
OneLib == (LibA10 :> {SoA1})

NextMaint ==
    \/ check_one_request
    \/ pc = "check" /\ \E f \in PipelineFinds : \E r \in findrepos(f) :
            findrepos_declines(f, r)
    \/ pc = "check" /\ \E f \in PipelineFinds : \E r \in findrepos(f) :
            repos_matched(f, r)
    \/ pc = "maint" /\ \E o \in maintenance_hack(arg, DstProject, Package, todo) :
            \E w \in Orders(o.dropped) : maintenance_resolves(o, w)
    \/ pc = "maint" /\ \E o \in maintenance_hack(arg, DstProject, Package, todo) :
            maintenance_raises(o)
    \/ pc = "maint" /\ \E o \in maintenance_hack(arg, DstProject, Package, todo) :
            maintenance_crashes(o)
    \/ \E m \in todo, side \in {"dst", "src"}, e \in ExtractFailures :
            extract_raises(m, side, e)
    \/ \E m \in todo : extract_dst_none(m)
    \/ \E m \in todo : extract_src_none(m)
    \/ \E m \in todo : pair_libraries(m, OneLib, OneLib, <<LibA10>>)
    \/ \E p \in pairs, chk \in CheckerCodes : check_pair(p, 0, 0, chk)
    \/ loop_end
    \/ save_result

SpecMaint == InitMaint /\ [][NextMaint]_vars

\* ------------------------------------- the pipeline over debug info scans
\* the packages a scan finds: liba1 with two libraries and libb2 with one
Pkg(name, libs, debuginfo) == [name |-> name, libs |-> libs, debuginfo |-> debuginfo]
DebugInfo(arch, files) == Some([arch |-> arch, files |-> files])

NoDebugInfo(name, libs) == Pkg(name, libs, Nothing)

\* a scan that finds debug info for everything
FullScan ==
    <<Pkg("liba1", {LibA10, LibA11},
          DebugInfo("x86_64", {DebugFile(LibA10, "plain"),
                               DebugFile(LibA11, "versioned")})),
      Pkg("libb2", {}, Nothing)>>

\* what the scan of one side finds: debug info for everything; none for both
\* packages; an i586 debuginfo package of liba1 without debug files; a
\* debuginfo package of liba1 without the debug file of liba.so.1.1
DebugScans ==
    {FullScan,
     <<NoDebugInfo("liba1", {LibA10, LibA11}), NoDebugInfo("libb2", {LibB2})>>,
     <<Pkg("liba1", {LibA10, LibA11}, DebugInfo("i586", {})),
       Pkg("libb2", {LibB2}, DebugInfo("x86_64", {DebugFile(LibB2, "plain")}))>>,
     <<Pkg("liba1", {LibA10, LibA11}, DebugInfo("x86_64", {DebugFile(LibA10, "plain")})),
       NoDebugInfo("libb2", {LibB2})>>}

\* one request of a project of up to MaxRepos architectures; arg holds what
\* the scans of the repositories of the first architecture find, the
\* repositories of the other architectures have debug info for everything
InitDebug ==
    /\ InitRun
    /\ queue = <<1>> /\ width = MaxRepos
    /\ \E d \in DebugScans, s \in DebugScans : arg = [dst |-> d, src |-> s]
    /\ res = <<>>

\* the packages compute_fetchlist finds on a side of m
scan_of(side, m) == IF m.arch = ArchList[1] THEN arg[side] ELSE FullScan

\* extract of the destination side returns libraries for m
dst_extracted(m) ==
    /\ missing_of(scan_of("dst", m), m.arch) = {}
    /\ DOMAIN liblist_of(files_of(scan_of("dst", m))) # {}

\* the scan of a side can be reached for m
scanned(m, side) == side = "dst" \/ dst_extracted(m)

\* lines 312-315, 333-336: compute_fetchlist raises MissingDebugInfo, whose
\* message lists the entries of its set
debuginfo_missing(m, side) ==
    LET missing == missing_of(scan_of(side, m), m.arch) IN
    /\ pc = "repos" /\ m \in todo
    /\ scanned(m, side) /\ missing # {}
    /\ todo' = todo \ {m}
    /\ ret' = ret_after_failure("MissingDebugInfo", ret)
    /\ missing_debuginfo' =
         Append(missing_debuginfo, [at |-> Side(side, m), lacking |-> missing])
    /\ log' = Append(log, <<"missing debuginfo", Side(side, m)>>)
    /\ pc' = "repos" /\ ev' = "MissingDebugInfo"
    /\ unpackdir' = IF side = "src" THEN unpacked(unpackdir, cur) ELSE unpackdir
    /\ UNCHANGED <<queue, width, cur, overall, libresults, mr, pairs, calls, reports,
                   text_summary, extVars, funVars, cfgVars, returned, dumpVars>>

\* DistUrlMismatch or FetchError, raised before the debug info check
fetch_fails(m, side, e) ==
    /\ scanned(m, side)
    /\ extract_raises(m, side, e)

\* both sides are extracted
debug_pairs(m, order) ==
    /\ dst_extracted(m) /\ missing_of(scan_of("src", m), m.arch) = {}
    /\ pair_libraries(m, liblist_of(files_of(scan_of("dst", m))),
                      liblist_of(files_of(scan_of("src", m))), order)

\* an exception check_source_submission does not catch, raised in the loop
loop_exception ==
    /\ pc = "repos" /\ todo # {}
    /\ unhandled_exception

NextDebug ==
    \/ check_one_request
    \/ pc = "check" /\ \E f \in PipelineFinds : \E r \in findrepos(f) :
            findrepos_matches(f, r)
    \/ \E m \in todo, side \in {"dst", "src"} : debuginfo_missing(m, side)
    \/ \E m \in todo, side \in {"dst", "src"}, e \in {"DistUrlMismatch", "FetchError"} :
            fetch_fails(m, side, e)
    \/ \E m \in todo : \E o \in Orders(DOMAIN liblist_of(files_of(scan_of("dst", m)))) :
            debug_pairs(m, o)
    \/ \E p \in pairs, d_new \in DumperCodes, chk \in CheckerCodes :
            check_pair(p, 0, d_new, chk)
    \/ loop_end
    \/ loop_exception
    \/ save_result

SpecDebug == InitDebug /\ [][NextDebug]_vars

\* ------------------------------------- findrepos with the destination's meta
DstProjects == {"openSUSE:Factory", "openSUSE:Tumbleweed", "SUSE:SLE-12:Update"}
DstRepoNames == <<"standard", "snapshot", "stand", "ports">>
DstArchs == <<"x86_64", "aarch64">>

\* the destination's _meta: some of the repositories, each for both architectures
DstMetas ==
    {Nothing}
    \cup {Some(SelectSeq([i \in DOMAIN DstRepoNames |->
                             [name |-> DstRepoNames[i], archs |-> DstArchs]],
                         LAMBDA r : r.name \in names)) :
             names \in SUBSET Range(DstRepoNames)}

\* the path declarations of a source repository: one path, none, or two
AliasPaths ==
    {<<[project |-> prj, repository |-> r]>> :
        prj \in {"openSUSE:Factory", "openSUSE:Tumbleweed"},
        r \in {"standard", "snapshot"}}
    \cup {<<[project |-> "SUSE:SLE-12:Update", repository |-> r]>> :
             r \in {"standard", "stand"}}
    \cup {<<>>,
          <<[project |-> "openSUSE:Factory", repository |-> "standard"],
            [project |-> "openSUSE:Factory", repository |-> "ports"]>>}

\* the source metas of up to MaxMetaRepos repositories for both architectures
AliasMetas ==
    UNION {{[i \in 1..n |-> [name |-> FindRepoNames[i], path |-> c[i],
                              archs |-> DstArchs]] :
               c \in [1..n -> AliasPaths]} : n \in 0..MaxMetaRepos}

\* findrepos is called outside staging for a source package that is built in
\* every repository
InitDst ==
    /\ InitRun
    /\ queue = <<>> /\ width = 0
    /\ \E prj \in DstProjects, dm \in DstMetas, meta \in AliasMetas :
          arg = [meta |-> Some(meta), dst_project |-> prj, dstmeta |-> dm,
                 staging |-> FALSE,
                 rmap |-> [k \in FindKeys(meta) |-> Succeeded],
                 srcrepos |-> Some(FindKeys(meta))]
    /\ res = Nothing

\* findrepos, with the get_dstrepos it starts with (lines 914-916)
call_findrepos_dst ==
    LET d == get_dstrepos(arg.dst_project, arg.dstmeta)
        f == [meta |-> arg.meta, dst_project |-> arg.dst_project, dstrepos |-> d,
              staging |-> arg.staging, rmap |-> arg.rmap, srcrepos |-> arg.srcrepos]
    IN
    /\ res = Nothing
    /\ \E r \in findrepos(f) :
          res' = Some([dstrepos |-> d,
                       matchrepos |-> IF d = Nothing THEN {}
                                      ELSE matchrepos_of(arg.meta[1], arg.dst_project,
                                                         d[1], arg.staging),
                       result |-> r])
    /\ UNCHANGED <<pc, queue, width, cur, ev, runVars, botVars, extVars, arg, cfgVars, returned, diskVars>>

NextDst == call_findrepos_dst

SpecDst == InitDst /\ [][NextDst]_vars

\* ------------------------------------------------------------- osclib/cpio.py
\* a buffer is a Python value [type, val]: type "bytes" or "str", val the
\* sequence of its bytes or characters
Bytes(s) == [type |-> "bytes", val |-> s]
Str(s) == [type |-> "str", val |-> s]

\* Python ==: a bytes object and a str are never equal
PyEq(x, y) == x.type = y.type /\ x.val = y.val

\* buf[a:b]
Slice(buf, a, b) ==
    [type |-> buf.type,
     val |-> SubSeq(buf.val, a + 1, IF b < Len(buf.val) THEN b ELSE Len(buf.val))]

NUL == "\\0"
HexDigits == <<"0", "1", "2", "3", "4", "5", "6", "7", "8", "9",
               "a", "b", "c", "d", "e", "f">>
Magic == <<"0", "7", "0", "7", "0", "1">>
Trailer == <<"T", "R", "A", "I", "L", "E", "R", "!", "!", "!">>

\* struct.calcsize("6s8s8s8s8s8s8s8s8s8s8s8s8s8s")
HeaderSize == 110

\* int(v, 16)
RECURSIVE int16(_)
int16(v) ==
    IF v = <<>> THEN 0
    ELSE int16(SubSeq(v, 1, Len(v) - 1)) * 16
         + (CHOOSE d \in 0..15 : HexDigits[d + 1] = v[Len(v)])

Raise(e) == [kind |-> e]

\* CpioFile.__init__: the object, or the exception the constructor ends with.
\* struct.unpack takes bytes only and returns bytes, so fields[0] is a bytes
\* object; in the raise of line 35 the message reads self.c_magic, an
\* attribute that is set nowhere
CpioFile(off, buf) ==
    IF off % 4 # 0 THEN Raise("Exception: invalid offset")
    ELSE IF buf.type # "bytes" THEN Raise("TypeError")
    ELSE IF Len(buf.val) < off + HeaderSize THEN Raise("struct.error")
    ELSE IF ~PyEq(Slice(buf, off, off + 6), Str(Magic)) THEN Raise("AttributeError")
    ELSE LET field(i) == SubSeq(buf.val, off + 6 + 8 * (i - 1) + 1, off + 6 + 8 * i)
             c_filesize == int16(field(7))
             c_namesize == int16(field(12))
             nlen == c_namesize - 1
             o1 == off + HeaderSize + nlen + 1
         IN IF Len(buf.val) < off + HeaderSize + nlen THEN Raise("struct.error")
            ELSE [kind |-> "ok", off |-> off,
                  name |-> Slice(buf, off + HeaderSize, off + HeaderSize + nlen),
                  c_filesize |-> c_filesize,
                  payloadstart |-> IF o1 % 4 # 0 THEN o1 + 4 - (o1 % 4) ELSE o1]

fin(f) == PyEq(f.name, Str(Trailer))

header(f, buf) == Slice(buf, f.payloadstart, f.payloadstart + f.c_filesize)

length(f) ==
    LET len == f.payloadstart - f.off + f.c_filesize IN
    IF f.c_filesize % 4 # 0 THEN len + 4 - (f.c_filesize % 4) ELSE len

\* the methods of class Cpio; the iterator protocol of a for statement asks
\* the object __iter__ returns for __next__
CpioMethods == {"__init__", "__iter__", "next"}

\* the archive format CpioFile reads: magic, 13 fields of 8 hex digits
\* (c_filesize the 7th, c_namesize the 12th), the name and a NUL padded to a
\* multiple of 4, the payload padded to a multiple of 4
MaxEntries == 2

hex8(n) == [i \in 1..8 |-> HexDigits[((n \div (16 ^ (8 - i))) % 16) + 1]]

Pad4(s) == s \o [i \in 1..((4 - (Len(s) % 4)) % 4) |-> NUL]

Entry(name, data) ==
    Pad4(Magic \o hex8(1) \o hex8(0) \o hex8(0) \o hex8(0) \o hex8(1) \o hex8(0)
         \o hex8(Len(data)) \o hex8(0) \o hex8(0) \o hex8(0) \o hex8(0)
         \o hex8(Len(name) + 1) \o hex8(0) \o name \o <<NUL>>)
    \o Pad4(data)

RECURSIVE Archive(_)
Archive(files) ==
    IF files = <<>> THEN Entry(Trailer, <<>>)
    ELSE Entry(Head(files).name, Head(files).data) \o Archive(Tail(files))

CpioNames == {<<"a">>, <<"l", "i", "b">>}
CpioPayloads == {<<>>, <<"x">>, <<"h", "e", "l", "l", "o">>}

\* a well-formed archive of up to MaxEntries files, handed to Cpio as bytes
\* (a file opened 'rb') or as str, and iterated with a for statement or by
\* calls of next()
InitCpio ==
    /\ InitRun
    /\ queue = <<>> /\ width = 0
    /\ \E n \in 0..MaxEntries :
          \E files \in [1..n -> [name : CpioNames, data : CpioPayloads]] :
              \E type \in {"bytes", "str"}, use \in {"for", "next"} :
                  arg = [files |-> files, use |-> use,
                         buf |-> [type |-> type, val |-> Archive(files)]]
    /\ res = [off |-> 0, files |-> <<>>, visited |-> <<>>, status |-> "created"]

\* `for i in cpio`: iter(cpio) calls __iter__, which returns the object itself
Cpio_iter ==
    /\ arg.use = "for" /\ res.status = "created"
    /\ res' = [res EXCEPT !.status = IF "__next__" \in CpioMethods THEN "iterating"
                                     ELSE "TypeError"]
    /\ UNCHANGED <<pc, queue, width, cur, ev, runVars, botVars, extVars, arg, cfgVars, returned, diskVars>>

\* Cpio.next, called by the for statement or by the caller
Cpio_next ==
    LET f == CpioFile(res.off, arg.buf) IN
    /\ \/ res.status = "iterating"
       \/ arg.use = "next" /\ res.status = "created"
    /\ res' = IF f.kind # "ok" THEN [res EXCEPT !.status = f.kind]
              ELSE IF fin(f)
              THEN [res EXCEPT !.status = "StopIteration",
                               !.visited = Append(@, <<f.off, f.payloadstart>>)]
              ELSE [off |-> res.off + length(f),
                    files |-> Append(res.files, [name |-> f.name,
                                                 data |-> header(f, arg.buf)]),
                    visited |-> Append(res.visited, <<f.off, f.payloadstart>>),
                    status |-> "iterating"]
    /\ UNCHANGED <<pc, queue, width, cur, ev, runVars, botVars, extVars, arg, cfgVars, returned, diskVars>>

NextCpio == Cpio_iter \/ Cpio_next

SpecCpio == InitCpio /\ [][NextCpio]_vars

\* --------------------------------------------------- extract, download_files
\* arg is what the build service holds for a package: rpms maps the file name
\* of a binary package to the files rpm2cpio writes for it ([name, data], the
\* name relative: './usr/...'), liblist and debuglist are what
\* compute_fetchlist returns for it. A path is a sequence of its parts.
\* res = [tree, cache, fetched, last]: the files below UNPACKDIR as
\* [key, fn, content], the files below DOWNLOADS as [dir, fn], the files
\* downloaded so far in order, and the key and the end of the last call.
MaxExtracts == 2

LibRpm == "liba1-1.0-1.x86_64.rpm"
DebugRpm == "liba1-debuginfo-1.0-1.x86_64.rpm"
LibPathA == <<"/usr/lib64/liba.so.1.0">>
LibPathB == <<"/usr/lib64/libb.so.2">>
DocPath == <<"/usr/share/doc/packages/liba1/README">>
ToolDebugPath == <<"/usr/lib/debug", "/usr/bin/a-tool", ".debug">>

\* line 1045: '/usr/lib/debug%s.debug' % lib
libdebug(lib) == <<"/usr/lib/debug">> \o lib \o <<".debug">>

member(path, data) == [name |-> <<".">> \o path, data |-> data]

\* the key (project, package, repo, arch) of the two sides
ExtractKeys ==
    {[project |-> prj, package |-> "liba", repo |-> "standard", arch |-> "x86_64"] :
        prj \in {"openSUSE:Factory", "home:user"}}

Align4(n) == IF n % 4 # 0 THEN n + 4 - (n % 4) ELSE n

\* CpioRead(tmpfile).read() of osc.util.cpio: the headers of the entries
\* before the trailer, each with the offset of its payload in the archive
RECURSIVE CpioRead(_, _)
CpioRead(files, off) ==
    IF files = <<>> THEN <<>>
    ELSE LET f == Head(files)
             dataoff == Align4(off + HeaderSize + Len(f.name) + 1)
         IN << [filename |-> f.name, dataoff |-> dataoff, filesize |-> Len(f.data)] >>
            \o CpioRead(Tail(files), Align4(dataoff + Len(f.data)))

\* lines 727-729: `if fn.startswith('./'): fn = fn[1:]`
strip_dot(fn) == IF Len(fn) >= 2 /\ fn[1] = "." THEN Tail(fn) ELSE fn

\* lines 740-747: seek to ch.dataoff, then read(4096) until it returns b''
read_to_eof(buf, dataoff) == SubSeq(buf, dataoff + 1, Len(buf))

\* open(dst, 'wb'): the file of the key is created or truncated and written
write_file(tree, key, fn, content) ==
    {t \in tree : ~(t.key = key /\ t.fn = fn)}
    \cup {[key |-> key, fn |-> fn, content |-> content]}

\* lines 726-747: `for ch in cpio`
RECURSIVE unpack_cpio(_, _, _, _, _)
unpack_cpio(tree, key, hdrs, buf, wanted) ==
    IF hdrs = <<>> THEN tree
    ELSE LET ch == Head(hdrs)
             fn == strip_dot(ch.filename)
         IN unpack_cpio(IF fn \notin wanted THEN tree
                        ELSE write_file(tree, key, fn, read_to_eof(buf, ch.dataoff)),
                        key, Tail(hdrs), buf, wanted)

\* line 757: os.path.join(DOWNLOADS, package, project, repo)
repodir(key) == [package |-> key.package, project |-> key.project, repo |-> key.repo]

\* lines 752-770: every file is fetched from the build service to its place
\* below DOWNLOADS, whether it is there already or not; st = [cache, fetched]
RECURSIVE download_files(_, _, _)
download_files(st, key, filenames) ==
    IF filenames = <<>> THEN st
    ELSE LET t == [dir |-> repodir(key), fn |-> Head(filenames)] IN
         download_files([cache |-> st.cache \cup {t},
                         fetched |-> Append(st.fetched, t)],
                        key, Tail(filenames))

\* lines 713-747: `for fn in fetchlist`; rpm2cpio fails for the package
\* number failat (0: for none); st = [tree, cache, status]
RECURSIVE unpack_rpms(_, _, _, _, _)
unpack_rpms(st, key, world, fetchlist, failat) ==
    IF fetchlist = <<>> THEN st
    ELSE IF failat = 1 THEN [st EXCEPT !.status = "FetchError"]
    ELSE LET fn == Head(fetchlist)
             files == world.rpms[fn]
             wanted == world.liblist
                       \cup {world.debuglist[l] : l \in DOMAIN world.debuglist}
         IN unpack_rpms(
               [tree |-> unpack_cpio(st.tree, key, CpioRead(files, 0), Archive(files),
                                     wanted),
                cache |-> st.cache \ {[dir |-> repodir(key), fn |-> fn]},
                status |-> st.status],
               key, world, Tail(fetchlist), IF failat = 0 THEN 0 ELSE failat - 1)

\* extract(project, package, srcinfo, repo, arch) with a fetchlist that is not
\* empty and is iterated in the order `fetchlist`: the new res
extract(r, key, world, fetchlist, failat) ==
    LET got == download_files([cache |-> r.cache, fetched |-> r.fetched], key, fetchlist)
        st == unpack_rpms([tree |-> r.tree, cache |-> got.cache, status |-> "ok"],
                          key, world, fetchlist, failat)
    IN [tree |-> st.tree, cache |-> st.cache, fetched |-> got.fetched,
        last |-> [key |-> key, status |-> st.status]]

\* the build service holds a library package with liba, libb or both, with
\* or without a README in front, and its debuginfo package with the debug
\* files of the libraries and one of a program
InitExtract ==
    /\ InitRun
    /\ queue = <<>> /\ width = 0
    /\ \E libs \in {<<LibPathA>>, <<LibPathB>>, <<LibPathA, LibPathB>>},
          doc \in BOOLEAN, d \in CpioPayloads, g \in CpioPayloads :
          arg = [rpms |->
                   (LibRpm :> ((IF doc THEN <<member(DocPath, <<"r", "e", "a", "d">>)>>
                                ELSE <<>>)
                               \o [i \in DOMAIN libs |-> member(libs[i], d)]))
                   @@ (DebugRpm :> ([i \in DOMAIN libs |-> member(libdebug(libs[i]), g)]
                                    \o <<member(ToolDebugPath, <<"t">>)>>)),
                 liblist |-> Range(libs),
                 debuglist |-> [l \in Range(libs) |-> libdebug(l)]]
    /\ res = [tree |-> {}, cache |-> {}, fetched |-> <<>>,
              last |-> [key |-> <<>>, status |-> "none"]]

\* one call of extract that returns the lists, or raises FetchError because
\* rpm2cpio fails
call_extract(key, fetchlist, failat) ==
    /\ Len(res.fetched) < 2 * MaxExtracts
    /\ res' = extract(res, key, arg, fetchlist, failat)
    /\ UNCHANGED <<pc, queue, width, cur, ev, runVars, botVars, extVars, arg, cfgVars,
                   returned, diskVars>>

NextExtract ==
    \E key \in ExtractKeys, fetchlist \in Orders({LibRpm, DebugRpm}), failat \in 0..2 :
        call_extract(key, fetchlist, failat)

SpecExtract == InitExtract /\ [][NextExtract]_vars

\* ------------------------------------------ the pipeline with failing tools
\* lines 384-395, 538-542: a tool of the pair cannot be started (Popen raises
\* OSError) after the files `files` were dumped; the exception leaves the loop
\* before the cleanup() of line 409 and is caught by check_one_request
pair_exception(p, files) ==
    /\ pc = "pairs" /\ p \in pairs
    /\ stale' = cleanup(dumps)
    /\ dumps' = cleanup(dumps) \cup files
    /\ ret' = None
    /\ log' = Append(log, <<"unhandled exception in ABI checker">>)
    /\ pc' = "save" /\ ev' = "exception"
    /\ UNCHANGED <<queue, width, cur, overall, libresults, missing_debuginfo, todo, mr,
                   pairs, calls, reports, text_summary, extVars, funVars, cfgVars,
                   returned, unpackdir>>

NextDisk ==
    \/ Next
    \/ \E p \in pairs, files \in {{}, {"old.dump"}, DumpFiles} : pair_exception(p, files)

SpecDisk == InitRuns /\ [][NextDisk]_vars

\* --------------------------------------- the pipeline with an interrupted save
\* save_reports_to_db commits at line 604 (the Request row and the delete of
\* the old ABICheck rows), at line 616 after each ABICheck and at line 637
\* after each LibReport. d0 is the database after the first commit, d1 after
\* the last: the database after the first commit and n further ones
committed(d0, d1, n) ==
    LET newA == d1.abicheck \ d0.abicheck
        newL == d1.libreport \ d0.libreport
        atA(a) == Cardinality({b \in newA : b.id <= a.id})
                  + Cardinality({l \in newL : l.submission_id < a.id})
        atL(l) == Cardinality({b \in newA : b.id <= l.submission_id})
                  + Cardinality({m \in newL : m.id <= l.id})
    IN [d0 EXCEPT !.abicheck = @ \cup {a \in newA : atA(a) <= n},
                  !.libreport = @ \cup {l \in newL : atL(l) <= n}]

\* lines 589-637: save_reports_to_db does not reach its end, because the
\* database raises an error or the bot is stopped; what was committed stays
\* and the run of the bot is over
save_interrupted ==
    LET state == state_of(ret)
        result == result_of(ret)
        d0 == upsert_request(db, cur, state, result)
        d1 == save_reports_to_db(db, text_summary, cur, state, result, reports).db
        total == 1 + Cardinality(d1.abicheck \ d0.abicheck)
                   + Cardinality(d1.libreport \ d0.libreport)
    IN
    /\ pc = "save"
    /\ \E commits \in 0..(total - 1) :
          db' = IF commits = 0 THEN db ELSE committed(d0, d1, commits - 1)
    /\ queue' = <<>>
    /\ pc' = "idle" /\ ev' = "save interrupted"
    /\ UNCHANGED <<width, cur, runVars, botVars, comments, saves, funVars, cfgVars,
                   returned, diskVars>>

NextSave == Next \/ save_interrupted

SpecSave == InitRuns /\ [][NextSave]_vars

\* ------------------------------------ the pipeline of a bot that may not review
\* one request is checked MaxRuns times by a bot started with or without
\* --no-review and --force
InitReview ==
    /\ InitState
    /\ no_review \in BOOLEAN /\ force \in BOOLEAN
    /\ queue = [i \in 1..MaxRuns |-> 1] /\ width = 1
    /\ arg = <<>> /\ res = <<>>

\* lines 516-520: the request is already done and is skipped
skip_request ==
    /\ pc = "idle" /\ queue # <<>>
    /\ already_done(no_review, force, db, Head(queue))
    /\ queue' = Tail(queue)
    /\ returned' = None
    /\ ev' = "skipped"
    /\ UNCHANGED <<pc, width, cur, runVars, botVars, extVars, funVars, cfgVars, diskVars>>

NextReview == Next \/ skip_request

SpecReview == InitReview /\ [][NextReview]_vars

\* ===================================================================== claims
ResultsOf(lrs) == [i \in DOMAIN lrs |-> lrs[i].result]

\* dominance Incompatible > Compatible > Unknown over a set of outcomes
Dominant(S) ==
    IF PyFalse \in S THEN PyFalse ELSE IF PyTrue \in S THEN PyTrue ELSE None

\* the Request row of the request checked last
RequestRows(id) == {r \in db.request : r.id = id}

\* C1: within one run of check_source_submission the overall result is the
\* dominance fold (Incompatible > Compatible > Unknown) of the compare outcomes
\* recorded so far: Unknown before any outcome, Compatible once a Compatible
\* and no Incompatible outcome is recorded, Incompatible from the first
\* Incompatible outcome on; once Incompatible, no later pair or repo failure
\* of the run changes it.
C1_OverallIsDominanceFold ==
    [][/\ overall' = Dominant(Range(ResultsOf(libresults')))
       /\ (overall = PyFalse /\ ev' # "begin") => overall' = PyFalse]_vars

\* C1: the outcomes [Compatible, Compatible, Incompatible, Compatible] of one
\* submission ended in Incompatible
C1_Witness ==
    /\ pc = "save"
    /\ ResultsOf(libresults) = <<PyTrue, PyTrue, PyFalse, PyTrue>>
    /\ overall = PyFalse

\* C2 (as claimed): a failed dump or a failed compare on a pair turns an
\* accept verdict into indeterminate and keeps an indeterminate one, logs a
\* pair-level error, and the compare tool is not run after a failed dump.
C2_ToolFailureMakesIndeterminate ==
    [][ev' \in {"dump failed", "compare failed"} =>
         /\ (ret \in {PyTrue, None} => ret' = None)
         /\ ret' # PyTrue
         /\ log' # log
         /\ (ev' = "dump failed" =>
               \A i \in DOMAIN calls' : calls'[i][1] # "abi-compliance-checker")]_vars

\* C3 (as claimed): a FetchError raised after a pair was found Compatible
\* makes the submission's overall result Unknown.
C3_FetchErrorMakesOverallUnknown ==
    [][(ev' = "FetchError" /\ overall = PyTrue) => overall' = None]_vars

\* C3 (amended): a FetchError leaves the overall result and the recorded
\* LibResults as they are (a Compatible overall stays Compatible, it never
\* becomes Incompatible); the verdict becomes indeterminate if it was accept
\* and is unchanged otherwise, so the FetchError never declines the request.
C3_FetchErrorOnlyDowngradesVerdict ==
    [][ev' = "FetchError" =>
         /\ overall' = overall /\ libresults' = libresults
         /\ ret' = (IF ret = PyTrue THEN None ELSE ret)
         /\ (ret' = PyFalse => ret = PyFalse)]_vars

\* C3: a FetchError was raised after a Compatible pair while the verdict was
\* accept or indeterminate: the verdict is indeterminate, overall Compatible
C3_Witness ==
    /\ ev = "FetchError" /\ overall = PyTrue /\ libresults # <<>>
    /\ ret = None

\* an Unknown-causing failure was logged in the run
UnknownCausing ==
    \E l \in Range(log) : l[1] \in {"FetchError", "DistUrlMismatch", "failed to compare",
                             "abi-compliance-checker failed",
                             "unhandled exception in ABI checker"}

\* a failure that sets the verdict to indeterminate was logged in the run
VerdictDowngraded ==
    \E l \in Range(log) : l[1] \in {"FetchError", "DistUrlMismatch", "failed to compare",
                             "unhandled exception in ABI checker"}

\* C4 (as claimed): after check_one_request the persisted state is 'done'
\* exactly when the overall result is Compatible or Incompatible and no
\* Unknown-causing failure left a repo pending, and 'seen' otherwise.
C4_DoneOnlyIfDefinitive ==
    ev = "saved" =>
        \A r \in RequestRows(cur) :
            /\ r.state \in {"done", "seen"}
            /\ r.state = "done" <=> (overall \in {PyTrue, PyFalse} /\ ~UnknownCausing)

\* C4 (amended): after check_one_request the request has one row; its state
\* is 'done' exactly when the check returned accept or decline and 'seen'
\* exactly when it returned None, whatever the overall result is; an accepted
\* 'done' is reached only if no FetchError, DistUrlMismatch, failed dump or
\* unhandled exception occurred in the run.
C4_DoneIffVerdict ==
    ev = "saved" =>
        /\ Cardinality(RequestRows(cur)) = 1
        /\ \A r \in RequestRows(cur) :
            /\ r.state = "done" <=> ret \in {PyTrue, PyFalse}
            /\ r.state = "seen" <=> ret = None
            /\ r.result = result_of(ret)
            /\ (r.state = "done" /\ r.result = "accepted") => ~VerdictDowngraded

\* C4: a request of which nothing was compared (the recorded Report has an
\* Unknown overall result) is 'done' and accepted
C4_Witness ==
    /\ ev = "saved" /\ overall = None /\ libresults = <<>>
    /\ saves[Len(saves)].reports = <<Report(<<>>, None)>>
    /\ \E r \in RequestRows(cur) : r.state = "done" /\ r.result = "accepted"

\* rows in ascending id
RECURSIVE SortById(_)
SortById(rows) ==
    IF rows = {} THEN <<>>
    ELSE LET m == CHOOSE r \in rows : \A q \in rows : r.id <= q.id
         IN  <<m>> \o SortById(rows \ {m})

\* the LibResult a LibReport row stores
StoredLibResult(l) ==
    [src_repo |-> l.src_repo, src_lib |-> l.src_lib, dst_repo |-> l.dst_repo,
     dst_lib |-> l.dst_lib, arch |-> l.arch, result |-> l.result]

\* the Report an ABICheck row stores with its nested LibReport rows
StoredReport(d, a) ==
    LET ls == SortById({l \in d.libreport : l.submission_id = a.id}) IN
    Report([i \in DOMAIN ls |-> StoredLibResult(ls[i])], a.result)

\* the reports stored for a request, in the order of insertion
StoredReports(d, id) ==
    LET as == SortById({a \in d.abicheck : a.request_id = id}) IN
    [i \in DOMAIN as |-> StoredReport(d, as[i])]

\* what save_reports_to_db stores of a report: no LibReport under result None
Persisted(r) == Report(IF r.result = None THEN <<>> ELSE r.reports, r.result)

\* the reports of the most recent save for a request
RECURSIVE LastSaved(_, _)
LastSaved(h, id) ==
    IF h = <<>> THEN <<>>
    ELSE IF h[Len(h)].req = id THEN h[Len(h)].reports
    ELSE LastSaved(SubSeq(h, 1, Len(h) - 1), id)

\* C5: after every run of check_one_request, each request id has at most one
\* Request row, the request checked has exactly one, the ABICheck rows (with
\* their LibReport rows) stored for every request are exactly the reports of
\* the most recent run for it, and no LibReport row is left without its
\* ABICheck row.
C5_ReportsAreReplaced ==
    ev = "saved" =>
        /\ \A id \in ReqIds : Cardinality(RequestRows(id)) <= 1
        /\ Cardinality(RequestRows(cur)) = 1
        /\ \A id \in ReqIds :
              StoredReports(db, id) =
                [i \in DOMAIN LastSaved(saves, id) |-> Persisted(LastSaved(saves, id)[i])]
        /\ \A l \in db.libreport : \E a \in db.abicheck : a.id = l.submission_id

\* C5: the same request was checked twice, both runs stored LibReports, and
\* the second run's differ from the first's
C5_Witness ==
    /\ ev = "saved" /\ Len(saves) = 2
    /\ saves[1].req = saves[2].req
    /\ saves[1].reports # <<>> /\ saves[2].reports # <<>>
    /\ saves[1].reports[1].reports # <<>> /\ saves[2].reports[1].reports # <<>>
    /\ saves[1].reports # saves[2].reports

\* C6: when both dumps of a pair succeeded, the compare tool's exit code 0
\* appends one LibResult with result True, 1 one with result False, any other
\* code appends none; a failed dump appends none; every LibResult carries a
\* boolean.
C6_ExitCodeDecidesLibResult ==
    [][ev' \in {"compared", "compare failed", "dump failed"} =>
         LET chk == IF ev' = "dump failed" THEN -1 ELSE calls'[3][2] IN
         /\ (chk = 0 =>
               /\ Len(libresults') = Len(libresults) + 1
               /\ SubSeq(libresults', 1, Len(libresults)) = libresults
               /\ libresults'[Len(libresults')].result = PyTrue
               /\ ev' = "compared")
         /\ (chk = 1 =>
               /\ Len(libresults') = Len(libresults) + 1
               /\ SubSeq(libresults', 1, Len(libresults)) = libresults
               /\ libresults'[Len(libresults')].result = PyFalse
               /\ ev' = "compared")
         /\ (chk \notin {0, 1} => libresults' = libresults /\ ev' # "compared")
         /\ \A i \in DOMAIN libresults' : libresults'[i].result \in {PyTrue, PyFalse}]_vars

\* C6: the compare tool ended with 1 and an Incompatible LibResult was recorded
C6_Witness ==
    /\ ev = "compared" /\ calls[3] = <<"abi-compliance-checker", 1>>
    /\ libresults[Len(libresults)].result = PyFalse

\* the liblists extract hands to the pairing in the run over scanned packages
DstLibs == liblist_of(arg.dst)
SrcLibs == liblist_of(arg.src)

Count(seq, x) == Cardinality({i \in DOMAIN seq : seq[i] = x})

\* C7 (as claimed): a destination library without aliases and one differently
\* named source library that carries the destination library's basename as an
\* alias (dst = {liba.so.1: {}}, src = {liba.so.2: {liba.so.1}}) are paired:
\* the pair set is exactly that pair, no 'no longer packaged' warning is
\* emitted, and a compare of the pair records exactly one LibResult with
\* dst_lib the destination library and src_lib the source library.
C7_SourceAliasPairs ==
    \A d \in DOMAIN DstLibs, s \in DOMAIN SrcLibs :
        (/\ DOMAIN DstLibs = {d} /\ DstLibs[d] = {}
         /\ DOMAIN SrcLibs = {s} /\ s # d /\ SrcLibs[s] = {basename(d)})
        => /\ ev = "paired" => (pairs = {<<d, s>>} /\ warning(d) \notin Range(text_summary))
           /\ ev = "compared" =>
                 /\ Len(libresults) = 1
                 /\ libresults[1].dst_lib = basename(d)
                 /\ libresults[1].src_lib = basename(s)

\* a destination library with neither a same-path source library nor an
\* alias in the source alias index
Unmatched(lib) ==
    /\ lib \notin DOMAIN SrcLibs
    /\ \A a \in DstLibs[lib] : \A l \in DOMAIN SrcLibs : a \notin SrcLibs[l]

\* C8: the pairing produces no pair for a destination library that has
\* neither a same-path source library nor an alias in the source alias index
\* and appends exactly one 'no longer packaged' warning for it; every other
\* destination library is paired (with itself if the source has its path)
\* and gets no warning; nothing but these warnings is appended, and the
\* verdict and the overall result are unchanged.
C8_UnmatchedLibraryWarnsOnce ==
    [][ev' = "paired" =>
         /\ \A lib \in DOMAIN DstLibs :
               /\ Unmatched(lib) =>
                     /\ \A p \in pairs' : p[1] # lib
                     /\ Count(text_summary', warning(lib))
                          = Count(text_summary, warning(lib)) + 1
               /\ ~Unmatched(lib) =>
                     /\ \E p \in pairs' : p[1] = lib
                     /\ Count(text_summary', warning(lib)) = Count(text_summary, warning(lib))
               /\ lib \in DOMAIN SrcLibs => <<lib, lib>> \in pairs'
         /\ Len(text_summary') =
              Len(text_summary) + Cardinality({lib \in DOMAIN DstLibs : Unmatched(lib)})
         /\ ret' = ret /\ overall' = overall /\ libresults' = libresults]_vars

\* C8: one destination library was warned about while another one was
\* paired, and the verdict is still accept
C8_Witness ==
    /\ ev = "paired" /\ pairs # {} /\ ret = PyTrue
    /\ \E lib \in DOMAIN DstLibs :
          Unmatched(lib) /\ Count(text_summary, warning(lib)) = 1

\* the build result of a triple, if there is one
HasResult(t) == <<t.srcrepo, t.arch>> \in DOMAIN arg.rmap
ResultOf(t) == arg.rmap[<<t.srcrepo, t.arch>>]

\* C9 (as claimed): ensure_settled raises SourceBroken whenever a triple's
\* result has code 'broken', whatever the other triples' results are;
\* otherwise NotReadyYet if a triple has no result, a dirty one or one with a
\* code outside {succeeded, locked, excluded}; otherwise it passes.
C9_BrokenTakesPrecedence ==
    res # Nothing =>
        IF \E t \in arg.matchrepos : HasResult(t) /\ ResultOf(t).code = "broken"
        THEN res[1] = "SourceBroken"
        ELSE IF \E t \in arg.matchrepos :
                    \/ ~HasResult(t)
                    \/ ResultOf(t).dirty
                    \/ ResultOf(t).code \notin {"succeeded", "locked", "excluded"}
             THEN res[1] = "NotReadyYet"
             ELSE res[1] = "ok"

\* C10 (as claimed): findrepos returns triples only if the successful-build
\* report is not empty and holds the own (srcrepo, arch) of every triple
\* returned.
C10_EveryTripleBuilt ==
    (res # Nothing /\ res[1].kind = "ok") =>
        /\ arg.srcrepos # Nothing
        /\ arg.srcrepos[1] # {}
        /\ \A t \in res[1].repos : <<t.srcrepo, t.arch>> \in arg.srcrepos[1]

\* the ways repo matching and maintenance resolution decline a submission
Declines == {"SourceBroken", "NoBuildSuccess", "None", "MaintenanceError"}

\* C11: when repo matching raises SourceBroken or NoBuildSuccess (directly or
\* inside maintenance resolution), matches no triple, or maintenance
\* resolution raises MaintenanceError, the check returns decline with one more
\* line in the summary, no repo is extracted and no pair diffed, a Report
\* without LibResults is recorded, and the next step persists the request as
\* 'done' with result 'declined' and posts that summary.
C11_MatchFailureDeclines ==
    [][/\ ev' \in Declines =>
            /\ ret' = PyFalse
            /\ Len(text_summary') = Len(text_summary) + 1
            /\ reports' = <<Report(<<>>, None)>>
            /\ libresults' = <<>> /\ calls' = <<>> /\ mr' = NoMR
            /\ pc' = "save"
       /\ ev \in Declines =>
            /\ ev' = "saved"
            /\ {r \in db'.request : r.id = cur} =
                  {[id |-> cur, state |-> "done", result |-> "declined"]}
            /\ db'.libreport = {}
            /\ \E c \in comments' :
                  c.req = cur /\ c.result = "declined" /\ c.text = text_summary]_vars

\* C11: a MaintenanceError declined the request and the decline is stored
C11_Witness ==
    /\ ev = "saved" /\ ret = PyFalse
    /\ text_summary = << <<"Error", "MaintenanceError">> >>
    /\ \E r \in RequestRows(cur) : r.state = "done" /\ r.result = "declined"

\* C12: when repo matching raises NotReadyYet, directly or inside maintenance
\* resolution, the check returns None and adds nothing to the summary, no
\* repo is extracted and no pair diffed, and the next step persists the
\* request as 'seen' with result null and posts no comment.
C12_NotReadyYetStaysSilent ==
    [][/\ ev' = "NotReadyYet" =>
            /\ ret' = None
            /\ text_summary' = text_summary /\ text_summary' = <<>>
            /\ libresults' = <<>> /\ calls' = <<>> /\ mr' = NoMR
            /\ pc' = "save"
       /\ ev = "NotReadyYet" =>
            /\ ev' = "saved"
            /\ {r \in db'.request : r.id = cur} =
                  {[id |-> cur, state |-> "seen", result |-> None]}
            /\ text_summary' = <<>>
            /\ \A c \in comments' : c.req # cur]_vars

\* C12: the incident's build was not settled yet: NotReadyYet came out of
\* maintenance resolution, and the request is stored as seen
C12_Witness ==
    /\ ev = "saved" /\ ret = None /\ todo # {} /\ arg.find.meta[1] # <<>>
    /\ log = <<>> /\ reports = <<>> /\ text_summary = <<>>
    /\ \E r \in RequestRows(cur) : r.state = "seen" /\ r.result = None

\* what a scan has to report: the library packages without a debuginfo package
\* and the libraries without a debug file in theirs
Lacking(pkgs) ==
    {<<pkgs[i].name, Nothing>> :
        i \in {i \in DOMAIN pkgs : pkgs[i].libs # {} /\ pkgs[i].debuginfo = Nothing}}
    \cup UNION {{<<pkgs[i].name, Some(lib)>> :
                    lib \in {l \in pkgs[i].libs :
                                \A form \in {"plain", "versioned"} :
                                    DebugFile(l, form) \notin pkgs[i].debuginfo[1].files}} :
                i \in {i \in DOMAIN pkgs : pkgs[i].debuginfo # Nothing}}

Listed(missing) == {<<e.pkgname, e.lib>> : e \in missing}

MissingLine == <<"debug information is missing", missing_debuginfo>>

\* C13 as stated: once extract raised MissingDebugInfo for a repo, the check ends
\* with the verdict decline whatever happens in the other repos, every repo was
\* processed, and the summary lists what the scans found lacking
C13_MissingDebugInfoAlwaysDeclines ==
    (pc = "save" /\ missing_debuginfo # <<>>) =>
        /\ ret = PyFalse
        /\ todo = {}
        /\ MissingLine \in Range(text_summary)

\* C13 (amended): a MissingDebugInfo names every package and library the scan of
\* that repo finds lacking debug info and sets the verdict to decline, which no
\* typed failure or comparison of another repo changes, and the loop goes on;
\* when the loop ends the summary lists all of them and the request is saved
\* done/declined. An exception escaping from a later repo ends the loop at
\* once with the verdict indeterminate, nothing listed and no report.
C13_MissingDebugInfoDeclinesUnlessCrash ==
    /\ \A i \in DOMAIN missing_debuginfo :
          LET e == missing_debuginfo[i] IN
          \E m \in {MR(e.at.repo, e.at.repo, e.at.arch)} :
              /\ e.lacking # {}
              /\ Listed(e.lacking) = Lacking(scan_of(e.at.side, m))
    /\ (missing_debuginfo # <<>> /\ pc \in {"repos", "pairs"}) => ret = PyFalse
    /\ (missing_debuginfo # <<>> /\ pc = "save") =>
          IF ev = "exception"
          THEN ret = None /\ reports = <<>> /\ MissingLine \notin Range(text_summary)
          ELSE /\ ret = PyFalse /\ todo = {}
               /\ MissingLine \in Range(text_summary)
               /\ reports = <<Report(libresults, overall)>>
    /\ (missing_debuginfo # <<>> /\ pc = "idle" /\ ev = "saved") =>
          IF ret = None
          THEN RequestRows(cur) = {[id |-> cur, state |-> "seen", result |-> None]}
          ELSE /\ ret = PyFalse
               /\ RequestRows(cur) = {[id |-> cur, state |-> "done", result |-> "declined"]}
               /\ \E c \in comments :
                     c.req = cur /\ c.result = "declined" /\ MissingLine \in Range(c.text)

\* a repo lacks debug info for two entries, another repo is compared and found
\* compatible, a third failure is a FetchError, and the request is declined
C13_Witness ==
    /\ pc = "idle" /\ ev = "saved" /\ ret = PyFalse
    /\ Len(missing_debuginfo) = 1
    /\ Cardinality(missing_debuginfo[1].lacking) = 2
    /\ overall = PyTrue
    /\ MissingLine \in Range(text_summary)

Unhandled == <<"unhandled exception in ABI checker">>

\* C14: an exception escaping the per-request check is caught and logged and
\* the verdict becomes None; the request is then saved with state 'seen' and
\* result null, and the requests still queued are left to be checked: the
\* next step of the bot takes up the first of them
C14_ExceptionStep ==
    /\ ev' = "exception" =>
          /\ ret' = None
          /\ log' = Append(log, Unhandled)
          /\ pc' = "save" /\ queue' = queue /\ cur' = cur
          /\ UNCHANGED extVars
    /\ ev = "exception" =>
          /\ ev' = "saved" /\ pc' = "idle"
          /\ queue' = queue
          /\ {r \in db'.request : r.id = cur} =
                {[id |-> cur, state |-> "seen", result |-> None]}
          /\ \A c \in comments' : c.req = cur => c.state = "seen" /\ c.result = None
    /\ (ev = "saved" /\ Unhandled \in Range(log) /\ queue # <<>>) =>
          /\ ev' = "begin" /\ cur' = Head(queue) /\ queue' = Tail(queue)
          /\ ret' = PyTrue /\ log' = <<>>

C14_UnhandledExceptionIsContained ==
    /\ [][C14_ExceptionStep]_vars
    /\ []((ev = "saved" /\ Unhandled \in Range(log) /\ queue # <<>>)
            => ENABLED check_one_request)

\* an exception ended the check of the first request; the request is saved
\* 'seen' with no result and another check is still queued
C14_Witness ==
    /\ pc = "idle" /\ ev = "saved" /\ ret = None
    /\ Unhandled \in Range(log)
    /\ queue # <<>>
    /\ Len(saves) = 1
    /\ RequestRows(cur) = {[id |-> cur, state |-> "seen", result |-> None]}

\* C15 as stated: iterating a well-formed archive of n files and a trailer
\* ends at the trailer with exactly the n files in archive order, each with
\* its payload, and every offset and payload start visited is a multiple of 4
C15_IterationYieldsTheFiles ==
    res.status \notin {"created", "iterating"} =>
        /\ res.status = "StopIteration"
        /\ Len(res.files) = Len(arg.files)
        /\ \A i \in DOMAIN res.files :
              /\ res.files[i].name.val = arg.files[i].name
              /\ res.files[i].data.val = arg.files[i].data
        /\ \A i \in DOMAIN res.visited :
              res.visited[i][1] % 4 = 0 /\ res.visited[i][2] % 4 = 0

Rolling == {"openSUSE:Factory", "openSUSE:Tumbleweed"}
ProjectAlias(a, b) == a = b \/ {a, b} = Rolling
RepoAlias(a, b) == a = b \/ {a, b} = {"standard", "snapshot"}

\* C16 as stated: for a destination openSUSE:Factory or openSUSE:Tumbleweed,
\* a source repo whose single path names either of the two projects and a
\* repository that is, or is the standard/snapshot alias of, a destination
\* repo building for one of its architectures is matched to such a repo for
\* that architecture; no triple is returned twice
C16_AliasingBothDirections ==
    (res # Nothing /\ res[1].dstrepos # Nothing /\ arg.dst_project \in Rolling) =>
        /\ \A i \in DOMAIN arg.meta[1] :
              LET repo == arg.meta[1][i] IN
              (Len(repo.path) = 1 /\ ProjectAlias(repo.path[1].project, arg.dst_project)) =>
                  \A a \in Range(repo.archs) :
                      (\E k \in res[1].dstrepos[1] :
                          k[2] = a /\ RepoAlias(repo.path[1].repository, k[1]))
                      => \E t \in res[1].matchrepos :
                            /\ t.srcrepo = repo.name /\ t.arch = a
                            /\ RepoAlias(repo.path[1].repository, t.dstrepo)
                            /\ <<t.dstrepo, a>> \in res[1].dstrepos[1]
        /\ \A t, u \in res[1].matchrepos :
              (t.srcrepo = u.srcrepo /\ t.dstrepo = u.dstrepo /\ t.arch = u.arch) => t = u

\* the repositories the allow-list of a project names (every one without a list)
AllowedRepo(project, name) ==
    CASE project = "openSUSE:Factory" -> name \in {"standard", "snapshot"}
      [] project = "SUSE:SLE-12:Update" -> name = "standard"
      [] OTHER -> TRUE

AllowedArch(project, a) ==
    project = "SUSE:SLE-12:Update" => a \in {"i586", "ppc64le", "s390", "s390x", "x86_64"}

\* the destination's (repo, arch) set with only the allowed ones retained
AllowedDst(project, meta) ==
    UNION {{<<meta[i].name, a>> : a \in {a \in Range(meta[i].archs) : AllowedArch(project, a)}} :
              i \in {i \in DOMAIN meta : AllowedRepo(project, meta[i].name)}}

\* C19 as stated: outside staging the candidate set is exactly the triples
\* (srcRepo, dstRepo, arch) of the source repos with exactly one path whose
\* aliased project is the destination, arch an architecture of srcRepo, dstRepo
\* the aliased path repository and (dstRepo, arch) in the destination's set
\* reduced to the repos of the allow-list and the permitted architectures
C19_CandidateSetIsFiltered ==
    (res # Nothing /\ arg.dstmeta # Nothing) =>
        res[1].matchrepos =
            UNION {{MR(arg.meta[1][i].name, dstname(arg.meta[1][i]), a) :
                       a \in {a \in Range(arg.meta[1][i].archs) :
                                 <<dstname(arg.meta[1][i]), a>>
                                     \in AllowedDst(arg.dst_project, arg.dstmeta[1])}} :
                      i \in {i \in DOMAIN arg.meta[1] :
                                /\ Len(arg.meta[1][i].path) = 1
                                /\ path_project(arg.meta[1][i]) = arg.dst_project}}

\* the step is the return of _maintenance_hack for a destination package that
\* links to a released incident
IncidentResolved ==
    ev' = "resolved" /\ res' # Nothing /\ res'[1].originpackage # Nothing

\* origin triple x maps the key of the triple t of the request
MapsKey(x, t) == x.dstrepo = t.dstrepo /\ x.arch = t.arch

\* C17 as stated: the triples used for extraction are those of the request
\* with the source side replaced through the (dstRepo, arch) -> srcRepo map of
\* the incident's triples, dstRepo and arch kept; unmapped triples are dropped
C17_SourceSideRewritten ==
    [][IncidentResolved =>
          \E r \in findrepos(arg.find) :
              /\ r.kind = "ok"
              /\ \A u \in todo' : \E t \in todo, x \in r.repos :
                    MapsKey(x, t) /\ u = MR(x.srcrepo, t.dstrepo, t.arch)
              /\ \A t \in todo : (\E x \in r.repos : MapsKey(x, t)) =>
                    \E u \in todo' : u.dstrepo = t.dstrepo /\ u.arch = t.arch]_vars

\* C17 (amended): the source repo and arch of every triple are kept and its
\* destination repo is replaced by the source repo of an incident triple that
\* builds against the same (dstRepo, arch); triples without such an incident
\* triple are dropped with a warning, the verdict and the summary unchanged
\* and the loop started on what is left. When the incident matches no repo
\* at all the resolution ends with an exception and an indeterminate verdict.
C17_DestinationSideRewritten ==
    [][/\ IncidentResolved =>
             \E r \in findrepos(arg.find) :
                 /\ r.kind = "ok"
                 /\ \A u \in todo' : \E t \in todo, x \in r.repos :
                       MapsKey(x, t) /\ u = MR(t.srcrepo, x.srcrepo, t.arch)
                 /\ \A t \in todo :
                       IF \E x \in r.repos : MapsKey(x, t)
                       THEN \E u \in todo', x \in r.repos :
                               MapsKey(x, t) /\ u = MR(t.srcrepo, x.srcrepo, t.arch)
                       ELSE <<"couldn't find repo", t>> \in Range(log')
                 /\ Len(log') = Cardinality({t \in todo : ~\E x \in r.repos : MapsKey(x, t)})
                 /\ ret' = ret /\ ret = PyTrue /\ text_summary' = text_summary
                 /\ pc' = "repos"
       /\ (pc = "maint" /\ ev' = "exception") =>
             /\ \E r \in findrepos(arg.find) : r.kind = "None"
             /\ ret' = None /\ pc' = "save"]_vars

\* an incident building one architecture less than the request: one triple is
\* rewritten to the incident's repository, the other is dropped with a warning
C17_Witness ==
    /\ ev = "resolved" /\ pc = "repos"
    /\ res # Nothing /\ res[1].originpackage # Nothing
    /\ res[1].dropped # {}
    /\ todo # {} /\ \A u \in todo : u.srcrepo = "standard" /\ u.dstrepo = "update"
    /\ Len(log) = 1

\* the destination package is a link to <name>.<incidentNumber>
IncidentLink(l) ==
    /\ l.pkg # Nothing /\ l.prj = DstProject
    /\ l.pkg[1].base = Package /\ incident_re_match(l.pkg[1])

\* C18 as stated: for a maintained destination with a released incident (the
\* build statuses are not all disabled), a destination package that is no link
\* to <name>.<incidentNumber>, or whose origin package in <master>:<incident>
\* has no source info, ends the resolution with MaintenanceError and the
\* submission declined
C18_ImproperLinkIsFatal ==
    [][(/\ pc = "maint" /\ arg.maintained /\ ~arg.alldisabled
        /\ \/ ~IncidentLink(arg.link)
           \/ <<originproject_of(MaintProject, arg.link.pkg[1].ext),
                originpackage_of(Package, DstProject)>> \notin arg.srcinfos)
       => /\ ev' = "MaintenanceError"
          /\ ret' = PyFalse /\ pc' = "save"]_vars

\* ('standard', 'standard', arch) for every architecture of the source
\* project's repository `standard`
StagingTriples ==
    UNION {{MR("standard", "standard", a) : a \in Range(arg.meta[1][i].archs)} :
              i \in {i \in DOMAIN arg.meta[1] : arg.meta[1][i].name = "standard"}}

Members == UNION {Range(arg.rpms[rpm]) : rpm \in DOMAIN arg.rpms}
Payload(fn) == (CHOOSE f \in Members : strip_dot(f.name) = fn).data
TreeOf(key) == {t \in res.tree : t.key = key}

\* C21: after a successful extract of (project, package, repo, arch) the
\* tree of that key holds exactly the library files of liblist and their
\* debug files, and each file's content is exactly the payload its package
\* archive stores for it.
C21_TreeHoldsThePayloads ==
    res.last.status = "ok" =>
        /\ {t.fn : t \in TreeOf(res.last.key)}
             = arg.liblist \cup {arg.debuglist[l] : l \in DOMAIN arg.debuglist}
        /\ \A t \in TreeOf(res.last.key) : t.content = Payload(t.fn)

\* C22: every file that was downloaded is still in the download cache, and
\* no file is downloaded a second time.
C22_DownloadsStayCached ==
    /\ \A i \in DOMAIN res.fetched : res.fetched[i] \in res.cache
    /\ \A i, j \in DOMAIN res.fetched : res.fetched[i] = res.fetched[j] => i = j

\* C23: when check_source_submission has ended, on whatever path, the
\* extraction directory does not exist, so that it never holds a tree of
\* another request than the one being checked.
C23_ExtractionDirWiped ==
    /\ pc \in {"save", "idle"} => unpackdir = {}
    /\ unpackdir \subseteq {cur}

\* C24: when a library pair has been processed, whether it was compared
\* (Compatible or Incompatible), a dump failed or the compare tool failed,
\* neither old.dump nor new.dump exists, and the tools of the pair found no
\* dump file of an earlier pair.
C24_DumpsRemovedAfterEachPair ==
    ev \in {"compared", "dump failed", "compare failed"} => dumps = {} /\ stale = {}

\* the old side was dumped with success, the dump of the new side failed,
\* after an earlier request had ended with an exception
C24_Witness ==
    /\ ev = "dump failed" /\ Len(calls) = 2 /\ dumps = {}
    /\ \E i \in DOMAIN saves : saves[i].reports = <<>>

\* C25: when save_reports_to_db is interrupted, the reports stored for the
\* request are either all those of the previous save or all the new ones.
C25_ReplaceIsTransactional ==
    ev = "save interrupted" =>
        StoredReports(db, cur) \in
            {[i \in DOMAIN LastSaved(saves, cur) |-> Persisted(LastSaved(saves, cur)[i])],
             [i \in DOMAIN reports |-> Persisted(reports[i])]}

\* a failure the loop catches and answers with `ret = None` was logged
TypedFailure ==
    \E l \in Range(log) : l[1] \in {"FetchError", "DistUrlMismatch", "failed to compare"}

\* C26: in the loop over the matched repos and when it returns, the verdict
\* is decline if MissingDebugInfo was raised for any repo, else indeterminate
\* if FetchError or DistUrlMismatch was raised for any repo or a dump of any
\* pair failed, else accept, in whatever order the repos and their failures
\* were processed.
C26_VerdictIsOrderIndependent ==
    (pc \in {"repos", "pairs"} \/ ev = "return") =>
        ret = IF missing_debuginfo # <<>> THEN PyFalse
              ELSE IF TypedFailure THEN None
              ELSE PyTrue

\* a FetchError was raised after MissingDebugInfo had set the verdict to
\* decline, and the verdict is still decline
C26_Witness ==
    /\ ev = "FetchError" /\ missing_debuginfo # <<>>
    /\ ret = PyFalse

\* C27: when the loop over the matched repos ends without a failure (no
\* missing debug info, no FetchError or DistUrlMismatch, no failed dump or
\* compare), check_source_submission returns accept whether the overall
\* result is Compatible, Incompatible or Unknown; an Incompatible result is
\* stored in the ABICheck row and named in the summary and the comment of a
\* request that is done and accepted.
C27_IncompatibleDoesNotDecline ==
    /\ (ev = "return" /\ missing_debuginfo = <<>> /\ ~UnknownCausing) => ret = PyTrue
    /\ (ev = "saved" /\ overall = PyFalse /\ missing_debuginfo = <<>> /\ ~UnknownCausing) =>
          /\ \A r \in RequestRows(cur) : r.state = "done" /\ r.result = "accepted"
          /\ StoredReports(db, cur) = <<Report(libresults, PyFalse)>>
          /\ <<"Warning: bad news from ABI check">> \in Range(text_summary)
          /\ \E c \in comments :
                c.req = cur /\ c.result = "accepted" /\ c.text = text_summary

\* an Incompatible library was found, nothing failed, and the request is
\* stored as accepted
C27_Witness ==
    /\ ev = "saved" /\ overall = PyFalse /\ ret = PyTrue
    /\ missing_debuginfo = <<>> /\ ~UnknownCausing
    /\ \E r \in RequestRows(cur) : r.result = "accepted"

\* C28: every stored Request row is 'done' exactly when its result is
\* 'accepted' or 'declined' and 'seen' exactly when it has no result; the row
\* of the request just checked says 'accepted' iff its check returned True
\* and 'declined' iff it returned False, also when no_review makes
\* check_one_request return None.
C28_StateMatchesResult ==
    /\ \A r \in db.request :
          /\ r.state \in {"done", "seen"}
          /\ r.state = "done" <=> r.result \in {"accepted", "declined"}
          /\ r.state = "seen" <=> r.result = None
    /\ ev = "saved" =>
          /\ Cardinality(RequestRows(cur)) = 1
          /\ \A r \in RequestRows(cur) :
                /\ r.result = "accepted" <=> ret = PyTrue
                /\ r.result = "declined" <=> ret = PyFalse
          /\ returned = IF no_review THEN None ELSE ret

\* a bot that does not review has stored a request as accepted and returned None
C28_Witness ==
    /\ ev = "saved" /\ no_review /\ returned = None /\ ret = PyTrue
    /\ \E r \in RequestRows(cur) : r.state = "done" /\ r.result = "accepted"

\* the stored state of the request at the head of the queue is 'done'
HeadIsDone == \E r \in db.request : r.id = Head(queue) /\ r.state = "done"

\* a step that takes a request from the queue: with no_review set, force
\* unset and the request stored as 'done' it returns None and leaves the
\* database and the comments as they are; otherwise the request is checked
C29_Step ==
    (pc = "idle" /\ queue # <<>> /\ queue' = Tail(queue)) =>
        IF no_review /\ ~force /\ HeadIsDone
        THEN returned' = None /\ pc' = "idle" /\ UNCHANGED <<db, comments, saves>>
        ELSE pc' = "check" /\ cur' = Head(queue)

\* C29: with no_review set and force unset a request stored as 'done' is
\* skipped, returning None with its rows and comments unchanged, so that a
\* 'done' row stays as it is; a request stored as 'seen' or not stored, and
\* with force any request, can be and is checked again.
C29_DoneIsAbsorbing ==
    /\ [][C29_Step]_vars
    /\ [][no_review /\ ~force =>
            \A r \in db.request : r.state = "done" => r \in db'.request]_vars
    /\ [](pc = "idle" /\ queue # <<>> /\ ~(no_review /\ ~force /\ HeadIsDone)
              => ENABLED check_one_request)

\* a request stored as 'done' was skipped
C29_Witness ==
    /\ ev = "skipped" /\ returned = None
    /\ \E r \in db.request : r.state = "done" /\ saves[Len(saves)].req = r.id

\* the incident of a maintained destination was resolved and builds for no
\* architecture of the request, so that every triple of the request was
\* dropped for lack of a mapping
NothingMapped ==
    /\ res # Nothing /\ res[1].kind = "ok" /\ res[1].originpackage # Nothing
    /\ res[1].dropped # {}
    /\ \A r \in findrepos(arg.find) :
          r.kind = "ok" => \A x \in r.repos : x.arch \notin Archs(width)

\* C30: when the incident maps none of the request's triples, the loop runs
\* over an empty repo set: nothing is extracted, dumped or compared, the
\* Report has no LibResult and no overall result, the verdict is accept and
\* the request is stored 'done' and 'accepted'.
C30_EmptyRepoSetIsAccepted ==
    NothingMapped =>
        /\ todo = {} /\ pairs = {} /\ calls = <<>> /\ unpackdir = {}
        /\ libresults = <<>> /\ overall = None /\ ret = PyTrue
        /\ pc \in {"repos", "save", "idle"}
        /\ pc = "save" => reports = <<Report(<<>>, None)>>
        /\ pc = "idle" =>
              /\ \A r \in RequestRows(cur) : r.state = "done" /\ r.result = "accepted"
              /\ Cardinality(RequestRows(cur)) = 1
              /\ StoredReports(db, cur) = <<Report(<<>>, None)>>

\* every triple was dropped and the request is stored as accepted
C30_Witness ==
    /\ NothingMapped /\ ev = "saved"
    /\ \E r \in RequestRows(cur) : r.state = "done" /\ r.result = "accepted"

================================================================
